---- MODULE Spec2Model ----
(***************************************************************************)
(* JSON compare tab of json-formatter (src/frontend/main.js): the          *)
(* normalizer (sortKeys / normalizedJson), the line diff (buildLineDiff),  *)
(* its two projections (buildDiffHtml, serializeDiff) and the handlers     *)
(* that keep the last result (handleCompare, handleBeautifyCompare,        *)
(* handleClear, handleCopyDiff, openDiffWindow); and, from the later       *)
(* version of the file (src/unnamed/part_000), the zoom and pan handlers   *)
(* of the Mermaid tab and the handlers of the image tab.                   *)
(*                                                                         *)
(* A JavaScript string is a sequence of one-character strings; fixed       *)
(* pieces of markup coming from template literals are kept as one element. *)
(* A line is a string; a line sequence is a sequence of lines.             *)
(***************************************************************************)
EXTENDS Integers, Sequences, FiniteSets, TLC

VARIABLES
    \* the compare tab (Spec)
    compareLeft,    \* compareLeft.value
    compareRight,   \* compareRight.value
    lastDiffText,   \* let lastDiffText
    lastDiffHtml,   \* let lastDiffHtml
    diffContainer,  \* diffContainer.innerHTML
    statusText,     \* statusMessage.textContent
    statusClass,    \* statusMessage.className: "hidden" | "error" | "success"
    lastCall,       \* history: the handler that ran last and how it ended
    lastDiff,       \* history: the diff of the last compare that succeeded
    copyPending,    \* clipboard writes of handleCopyDiff that have not settled yet
    \* buildLineDiff run on its own (DiffSpec)
    pc,             \* "idle" | "start" | "aligned" | "merged" | "projected"
    leftLines,      \* first argument of buildLineDiff
    rightLines,     \* second argument of buildLineDiff
    diff,           \* the local `diff` after diff.reverse() (pre-merge alignment)
    merged,         \* the returned `merged`
    dpTable,        \* the local `dp` after the fill loops
    displayHtml,    \* buildDiffHtml of the returned entries
    unifiedText,    \* serializeDiff of the returned entries
    \* normalizedJson run on its own (NormSpec)
    normPc,         \* "idle" | "start" | "once" | "twice"
    normA,          \* a JSON text
    normB,          \* a JSON text written from the same tree as normA
    outA,           \* normalizedJson(normA)
    outB,           \* normalizedJson(normB)
    outAA,          \* normalizedJson of the text of outA
    outBB,          \* normalizedJson of the text of outB
    \* escapeHtml run on its own (EscSpec)
    escPc,          \* "idle" | "start" | "escaped" | "rendered"
    escInput,       \* the argument `str` of escapeHtml
    escOutput,      \* escapeHtml(escInput)
    escMarkup,      \* buildDiffHtml of a diff that has the line escInput
    \* the Mermaid tab: zoom and pan of the preview (ZoomSpec)
    currentZoom,    \* let currentZoom
    panX,           \* let panX
    panY,           \* let panY
    isDragMode,     \* let isDragMode
    isDragging,     \* let isDragging
    dragStartX,     \* let dragStartX
    dragStartY,     \* let dragStartY
    mermaidPreview, \* mermaidPreview.innerHTML: what it holds, and the transform
                    \* of the .mermaid-preview-content element when it holds one
    zoomLevel,      \* zoomLevelDisplay.textContent, the number before the "%"
    rendering,      \* mermaid.render calls of handleRenderMermaid not yet settled
    zoomCall,       \* history: the zoom handler that ran last and currentZoom before it
    \* the image tab (ImageSpec)
    originalImage,          \* let originalImage: 0 for null, else the image
    originalImageData,      \* let originalImageData: 0 for null, else the image's data URL
    resizedImageData,       \* let resizedImageData, with the image it was computed from
    isRemovingBackground,   \* let isRemovingBackground
    btnDisabled,            \* the disabled flags of the four image buttons
    originalImagePreview,   \* originalImagePreview.innerHTML
    resizedImagePreview,    \* resizedImagePreview.innerHTML
    fileLoads,              \* files selected whose img.onload has not run yet
    backendCall             \* imageData of the remove_background call in flight, 0 for none

sessionVars == <<compareLeft, compareRight, lastDiffText, lastDiffHtml,
                 diffContainer, statusText, statusClass, lastCall, lastDiff>>

diffVars == <<pc, leftLines, rightLines, diff, merged, dpTable, displayHtml, unifiedText>>

normVars == <<normPc, normA, normB, outA, outB, outAA, outBB>>

escVars == <<escPc, escInput, escOutput, escMarkup>>

ioVars == <<copyPending>>

\* The session variables other than the status message
compareVars == <<compareLeft, compareRight, lastDiffText, lastDiffHtml,
                 diffContainer, lastCall, lastDiff>>

zoomVars == <<currentZoom, panX, panY, isDragMode, isDragging, dragStartX, dragStartY,
              mermaidPreview, zoomLevel, rendering, zoomCall>>

imageVars == <<originalImage, originalImageData, resizedImageData, isRemovingBackground,
               btnDisabled, originalImagePreview, resizedImagePreview, fileLoads,
               backendCall>>

\* The Mermaid tab and the image tab
tabVars == <<zoomVars, imageVars>>

vars == <<sessionVars, ioVars, diffVars, normVars, escVars, tabVars>>

\* ------------------------------------------------------------------ helpers

Max(a, b) == IF a >= b THEN a ELSE b

\* Array.prototype.reverse
Reverse(s) == [k \in 1..Len(s) |-> s[Len(s) + 1 - k]]

\* All sequences over S of length 0..n
SeqsUpTo(S, n) == UNION {[1..k -> S] : k \in 0..n}

\* --------------------------------------------------------------- characters

Digits == <<"0", "1", "2", "3", "4", "5", "6", "7", "8", "9">>

DigitSet == {Digits[k] : k \in 1..10}

DigitValue(c) == (CHOOSE k \in 1..10 : Digits[k] = c) - 1

\* JSON whitespace (of the characters used here)
Whitespace == {" ", "\n"}

\* Characters below U+0020, which JSON.parse rejects inside a string
ControlChars == {"\n"}

\* The characters in use, in ascending UTF-16 code unit order
CodeOrder ==
    <<"\n", " ", "\"", "&", "'", ",", "-", "/",
      "0", "1", "2", "3", "4", "5", "6", "7", "8", "9",
      ":", "<", ">", "[", "\\", "]",
      "a", "b", "c", "e", "f", "l", "n", "r", "s", "t", "u", "x", "{", "}">>

CharCode(c) == CHOOSE k \in 1..Len(CodeOrder) : CodeOrder[k] = c

\* a < b as Array.prototype.sort compares strings without a comparator:
\* by code units, a proper prefix first
RECURSIVE StrLess(_, _)
StrLess(a, b) ==
    IF b = <<>> THEN FALSE
    ELSE IF a = <<>> THEN TRUE
    ELSE IF Head(a) = Head(b) THEN StrLess(Tail(a), Tail(b))
    ELSE CharCode(Head(a)) < CharCode(Head(b))

RECURSIVE DigitsToInt(_, _)
DigitsToInt(ds, acc) ==
    IF ds = <<>> THEN acc
    ELSE DigitsToInt(Tail(ds), 10 * acc + DigitValue(Head(ds)))

RECURSIVE NatToDigits(_)
NatToDigits(n) ==
    IF n < 10 THEN <<Digits[n + 1]>>
    ELSE NatToDigits(n \div 10) \o <<Digits[(n % 10) + 1]>>

\* ------------------------------------------------------------ JSON values
\* null, booleans, numbers (integers), strings, arrays, and objects as the
\* sequence of their own properties in enumeration order.

JNull == [t |-> "null"]
JBool(b) == [t |-> "bool", v |-> b]
JNum(n) == [t |-> "num", v |-> n]
JStr(s) == [t |-> "str", v |-> s]
JArr(elems) == [t |-> "arr", v |-> elems]
JObj(props) == [t |-> "obj", v |-> props]

\* An integer index key ("0", "7", "10"; not "07"), which an object enumerates
\* before its other keys, in ascending numeric order
IsIndexKey(key) ==
    /\ key # <<>>
    /\ \A k \in 1..Len(key) : key[k] \in DigitSet
    /\ (Len(key) = 1 \/ key[1] # "0")

KeyPos(props, key) ==
    IF \E k \in 1..Len(props) : props[k].k = key
    THEN CHOOSE k \in 1..Len(props) : props[k].k = key
    ELSE 0

\* How many properties come before a new property `key`
InsertAt(props, key) ==
    IF IsIndexKey(key)
    THEN Cardinality({k \in 1..Len(props) :
                         /\ IsIndexKey(props[k].k)
                         /\ DigitsToInt(props[k].k, 0) < DigitsToInt(key, 0)})
    ELSE Len(props)

\* obj[key] = val on the property list of an ordinary object
SetProp(props, key, val) ==
    LET p == KeyPos(props, key)
    IN  IF p > 0
        THEN [props EXCEPT ![p] = [k |-> key, v |-> val]]
        ELSE LET n == InsertAt(props, key)
             IN  SubSeq(props, 1, n) \o <<[k |-> key, v |-> val]>>
                 \o SubSeq(props, n + 1, Len(props))

\* -------------------------------------------------------------- JSON.parse

ParseOk(v, n) == [ok |-> TRUE, val |-> v, next |-> n]
ParseFail(p) == [ok |-> FALSE, pos |-> p]

\* The character at i, "" past the end
CharAt(s, i) == IF i >= 1 /\ i <= Len(s) THEN s[i] ELSE ""

RECURSIVE SkipWs(_, _)
SkipWs(s, i) == IF CharAt(s, i) \in Whitespace THEN SkipWs(s, i + 1) ELSE i

RECURSIVE DigitsEnd(_, _)
DigitsEnd(s, i) == IF CharAt(s, i) \in DigitSet THEN DigitsEnd(s, i + 1) ELSE i

\* A number at i: -? (0 | [1-9][0-9]*); fractions and exponents are not used
ParseNumber(s, i) ==
    LET j == IF CharAt(s, i) = "-" THEN i + 1 ELSE i
        e == IF CharAt(s, j) = "0" THEN j + 1 ELSE DigitsEnd(s, j)
        n == DigitsToInt(SubSeq(s, j, e - 1), 0)
    IN  IF CharAt(s, j) \notin DigitSet THEN ParseFail(j)
        ELSE ParseOk(JNum(IF j > i THEN 0 - n ELSE n), e)

\* The literals true, false, null
ParseLiteral(s, i, word, val) ==
    IF \A k \in 1..Len(word) : CharAt(s, i + k - 1) = word[k]
    THEN ParseOk(val, i + Len(word))
    ELSE ParseFail(i)

\* The characters of a string, i just after its opening quote; the escapes
\* \" \\ \/ are the ones used
RECURSIVE ParseChars(_, _, _)
ParseChars(s, i, acc) ==
    LET c == CharAt(s, i)
    IN  IF c = "" \/ c \in ControlChars THEN ParseFail(i)
        ELSE IF c = "\"" THEN ParseOk(acc, i + 1)
        ELSE IF c = "\\"
        THEN IF CharAt(s, i + 1) \in {"\"", "\\", "/"}
             THEN ParseChars(s, i + 2, Append(acc, CharAt(s, i + 1)))
             ELSE ParseFail(i + 1)
        ELSE ParseChars(s, i + 1, Append(acc, c))

RECURSIVE ParseValue(_, _)
RECURSIVE ParseElements(_, _, _)
RECURSIVE ParseMembers(_, _, _)

\* The elements of an array, i at the start of an element
ParseElements(s, i, acc) ==
    LET r == ParseValue(s, i)
    IN  IF ~r.ok THEN r
        ELSE LET j == SkipWs(s, r.next)
             IN  IF CharAt(s, j) = "," THEN ParseElements(s, j + 1, Append(acc, r.val))
                 ELSE IF CharAt(s, j) = "]" THEN ParseOk(JArr(Append(acc, r.val)), j + 1)
                 ELSE ParseFail(j)

\* The members of an object, i at the start of a member; a repeated key keeps
\* its place and takes the later value
ParseMembers(s, i, props) ==
    LET j == SkipWs(s, i)
        key == ParseChars(s, j + 1, <<>>)
    IN  IF CharAt(s, j) # "\"" THEN ParseFail(j)
        ELSE IF ~key.ok THEN key
        ELSE LET c == SkipWs(s, key.next)
                 r == ParseValue(s, c + 1)
             IN  IF CharAt(s, c) # ":" THEN ParseFail(c)
                 ELSE IF ~r.ok THEN r
                 ELSE LET d == SkipWs(s, r.next)
                          now == SetProp(props, key.val, r.val)
                      IN  IF CharAt(s, d) = "," THEN ParseMembers(s, d + 1, now)
                          ELSE IF CharAt(s, d) = "}" THEN ParseOk(JObj(now), d + 1)
                          ELSE ParseFail(d)

ParseValue(s, i0) ==
    LET i == SkipWs(s, i0)
        c == CharAt(s, i)
    IN  IF c = "{"
        THEN LET j == SkipWs(s, i + 1)
             IN  IF CharAt(s, j) = "}" THEN ParseOk(JObj(<<>>), j + 1)
                 ELSE ParseMembers(s, j, <<>>)
        ELSE IF c = "["
        THEN LET j == SkipWs(s, i + 1)
             IN  IF CharAt(s, j) = "]" THEN ParseOk(JArr(<<>>), j + 1)
                 ELSE ParseElements(s, j, <<>>)
        ELSE IF c = "\""
        THEN LET r == ParseChars(s, i + 1, <<>>)
             IN  IF r.ok THEN ParseOk(JStr(r.val), r.next) ELSE r
        ELSE IF c = "-" \/ c \in DigitSet THEN ParseNumber(s, i)
        ELSE IF c = "t" THEN ParseLiteral(s, i, <<"t", "r", "u", "e">>, JBool(TRUE))
        ELSE IF c = "f" THEN ParseLiteral(s, i, <<"f", "a", "l", "s", "e">>, JBool(FALSE))
        ELSE IF c = "n" THEN ParseLiteral(s, i, <<"n", "u", "l", "l">>, JNull)
        ELSE ParseFail(i)

\* JSON.parse(text): a value, or the SyntaxError it throws (with the position
\* of the offending character)
JsonParse(text) ==
    LET r == ParseValue(text, 1)
    IN  IF ~r.ok THEN r
        ELSE LET e == SkipWs(text, r.next)
             IN  IF e = Len(text) + 1 THEN r ELSE ParseFail(e)

\* ---------------------------------------------------------------- sortKeys

\* Array.prototype.sort() on an array of distinct strings
RECURSIVE SortStrings(_)
SortStrings(keys) ==
    IF keys = <<>> THEN <<>>
    ELSE LET least == CHOOSE k \in 1..Len(keys) :
                          \A o \in 1..Len(keys) : o = k \/ StrLess(keys[k], keys[o])
         IN  <<keys[least]>>
             \o SortStrings(SubSeq(keys, 1, least - 1) \o SubSeq(keys, least + 1, Len(keys)))

\* Object.keys(value)
ObjectKeys(props) == [k \in 1..Len(props) |-> props[k].k]

GetProp(props, key) == props[KeyPos(props, key)].v

\* sortKeys with .reverse() in the place of .sort()
RECURSIVE sortKeysReversing(_)
RECURSIVE ReduceKeysReversing(_, _, _)
ReduceKeysReversing(props, keys, acc) ==
    IF keys = <<>> THEN acc
    ELSE ReduceKeysReversing(props, Tail(keys),
             SetProp(acc, Head(keys), sortKeysReversing(GetProp(props, Head(keys)))))

sortKeysReversing(value) ==
    IF value.t = "arr"
    THEN JArr([k \in 1..Len(value.v) |-> sortKeysReversing(value.v[k])])
    ELSE IF value.t = "obj"
    THEN JObj(ReduceKeysReversing(value.v, Reverse(ObjectKeys(value.v)), <<>>))
    ELSE value

\* sortKeys that leaves the objects inside arrays as they are
RECURSIVE sortKeysSkippingArrays(_)
RECURSIVE ReduceKeysSkippingArrays(_, _, _)
ReduceKeysSkippingArrays(props, keys, acc) ==
    IF keys = <<>> THEN acc
    ELSE ReduceKeysSkippingArrays(props, Tail(keys),
             SetProp(acc, Head(keys), sortKeysSkippingArrays(GetProp(props, Head(keys)))))

sortKeysSkippingArrays(value) ==
    IF value.t = "obj"
    THEN JObj(ReduceKeysSkippingArrays(value.v, SortStrings(ObjectKeys(value.v)), <<>>))
    ELSE value

RECURSIVE sortKeys(_)
RECURSIVE ReduceKeys(_, _, _)

\* .reduce((acc, key) => { acc[key] = sortKeys(value[key]); return acc; }, {})
ReduceKeys(props, keys, acc) ==
    IF keys = <<>> THEN acc
    ELSE ReduceKeys(props, Tail(keys),
                    SetProp(acc, Head(keys), sortKeys(GetProp(props, Head(keys)))))

sortKeys(value) ==
    IF value.t = "arr"
    THEN JArr([k \in 1..Len(value.v) |-> sortKeys(value.v[k])])
    ELSE IF value.t = "obj"
    THEN JObj(ReduceKeys(value.v, SortStrings(ObjectKeys(value.v)), <<>>))
    ELSE value

\* ---------------------------------------------- JSON.stringify(v, null, 2)

\* A string as a JSON string literal
RECURSIVE QuoteChars(_)
QuoteChars(s) ==
    IF s = <<>> THEN <<>>
    ELSE (IF Head(s) \in {"\"", "\\"} THEN <<"\\", Head(s)>>
          ELSE IF Head(s) = "\n" THEN <<"\\", "n">>
          ELSE <<Head(s)>>) \o QuoteChars(Tail(s))

Quote(s) == <<"\"">> \o QuoteChars(s) \o <<"\"">>

NumberToString(n) == IF n < 0 THEN <<"-">> \o NatToDigits(0 - n) ELSE NatToDigits(n)

\* The gap of one level: two spaces
Gap == <<" ", " ">>

RECURSIVE Serialize(_, _)
RECURSIVE SerializeItems(_, _, _, _)

\* Elements (or members, when isObj) k.. of a non-empty array or object, each
\* on its own line at indentation `ind`, separated by ",\n"
SerializeItems(items, k, ind, isObj) ==
    LET item == IF isObj
                THEN Quote(items[k].k) \o <<":", " ">> \o Serialize(items[k].v, ind)
                ELSE Serialize(items[k], ind)
    IN  ind \o item
        \o (IF k = Len(items) THEN <<>>
            ELSE <<",", "\n">> \o SerializeItems(items, k + 1, ind, isObj))

\* The text of `value` whose own line is indented by `ind`
Serialize(value, ind) ==
    IF value.t = "null" THEN <<"n", "u", "l", "l">>
    ELSE IF value.t = "bool"
    THEN (IF value.v THEN <<"t", "r", "u", "e">> ELSE <<"f", "a", "l", "s", "e">>)
    ELSE IF value.t = "num" THEN NumberToString(value.v)
    ELSE IF value.t = "str" THEN Quote(value.v)
    ELSE LET open == IF value.t = "arr" THEN "[" ELSE "{"
             close == IF value.t = "arr" THEN "]" ELSE "}"
         IN  IF value.v = <<>> THEN <<open, close>>
             ELSE <<open, "\n">>
                  \o SerializeItems(value.v, 1, ind \o Gap, value.t = "obj")
                  \o <<"\n">> \o ind \o <<close>>

JsonStringify(value) == Serialize(value, <<>>)

\* ----------------------------------------------------------- normalizedJson

\* normalizedJson(text): [ok |-> TRUE, text |-> canonical text], or
\* [ok |-> FALSE, error |-> the SyntaxError thrown by JSON.parse]
normalizedJson(text) ==
    LET parsed == JsonParse(text)
    IN  IF parsed.ok
        THEN [ok |-> TRUE, text |-> JsonStringify(sortKeys(parsed.val))]
        ELSE [ok |-> FALSE, error |-> [name |-> "SyntaxError", pos |-> parsed.pos]]

\* String.prototype.split('\n'): the pieces between the line breaks
RECURSIVE SplitFrom(_, _, _)
SplitFrom(s, i, cur) ==
    IF i > Len(s) THEN <<cur>>
    ELSE IF s[i] = "\n" THEN <<cur>> \o SplitFrom(s, i + 1, <<>>)
    ELSE SplitFrom(s, i + 1, Append(cur, s[i]))

SplitLines(s) == SplitFrom(s, 1, <<>>)

\* ------------------------------------------------------------ buildLineDiff

\* A line without its trailing spaces
RECURSIVE TrimEnd(_)
TrimEnd(line) ==
    IF line # <<>> /\ line[Len(line)] = " " THEN TrimEnd(SubSeq(line, 1, Len(line) - 1))
    ELSE line

\* FillRow comparing the lines after trimming them
RECURSIVE FillRowTrimmed(_, _, _, _, _)
FillRowTrimmed(left, right, prev, i, row) ==
    LET j == Len(row)
    IN  IF j > Len(right) THEN row
        ELSE FillRowTrimmed(left, right, prev, i,
                            Append(row, IF TrimEnd(left[i]) = TrimEnd(right[j])
                                        THEN prev[j] + 1
                                        ELSE Max(prev[j + 1], row[j])))

\* One row of the table: `row` holds dp[i][0..j-1] (dp[i][c] at index c+1),
\* `prev` is the finished row dp[i-1].
RECURSIVE FillRow(_, _, _, _, _)
FillRow(left, right, prev, i, row) ==
    LET j == Len(row)
    IN  IF j > Len(right) THEN row
        ELSE FillRow(left, right, prev, i,
                     Append(row, IF left[i] = right[j]
                                 THEN prev[j] + 1
                                 ELSE Max(prev[j + 1], row[j])))

\* The rows dp[0..i-1] are in `rows` (dp[r] at index r+1); adds the rows up to m.
RECURSIVE FillTable(_, _, _)
FillTable(left, right, rows) ==
    LET i == Len(rows)
    IN  IF i > Len(left) THEN rows
        ELSE FillTable(left, right,
                       Append(rows, FillRow(left, right, rows[i], i, <<0>>)))

\* dp after the fill loops: dp[i][j] is LcsTable(..)[i + 1][j + 1]
LcsTable(left, right) ==
    FillTable(left, right, <<[c \in 1..(Len(right) + 1) |-> 0]>>)

Entry(t, l, r) == [type |-> t, left |-> l, right |-> r]

\* Backtrack with the table comparison turned round (<= for >=)
RECURSIVE BacktrackWrongCmp(_, _, _, _, _, _)
BacktrackWrongCmp(left, right, dp, i, j, acc) ==
    IF ~(i > 0 \/ j > 0) THEN acc
    ELSE IF i > 0 /\ j > 0 /\ left[i] = right[j]
    THEN BacktrackWrongCmp(left, right, dp, i - 1, j - 1,
                           Append(acc, [type |-> "same", left |-> left[i], right |-> right[j]]))
    ELSE IF j > 0 /\ (i = 0 \/ dp[i + 1][j] <= dp[i][j + 1])
    THEN BacktrackWrongCmp(left, right, dp, i, j - 1,
                           Append(acc, [type |-> "added", left |-> <<>>, right |-> right[j]]))
    ELSE BacktrackWrongCmp(left, right, dp, i - 1, j,
                           Append(acc, [type |-> "removed", left |-> left[i], right |-> <<>>]))

\* Backtrack with > for >= in the table test
RECURSIVE BacktrackStrict(_, _, _, _, _, _)
BacktrackStrict(left, right, dp, i, j, acc) ==
    IF ~(i > 0 \/ j > 0) THEN acc
    ELSE IF i > 0 /\ j > 0 /\ left[i] = right[j]
    THEN BacktrackStrict(left, right, dp, i - 1, j - 1,
                         Append(acc, Entry("same", left[i], right[j])))
    ELSE IF j > 0 /\ (i = 0 \/ dp[i + 1][j] > dp[i][j + 1])
    THEN BacktrackStrict(left, right, dp, i, j - 1,
                         Append(acc, Entry("added", <<>>, right[j])))
    ELSE BacktrackStrict(left, right, dp, i - 1, j,
                         Append(acc, Entry("removed", left[i], <<>>)))

\* Backtrack pushing the current left line as the left text of an added entry
RECURSIVE BacktrackAddedLeft(_, _, _, _, _, _)
BacktrackAddedLeft(left, right, dp, i, j, acc) ==
    IF ~(i > 0 \/ j > 0) THEN acc
    ELSE IF i > 0 /\ j > 0 /\ left[i] = right[j]
    THEN BacktrackAddedLeft(left, right, dp, i - 1, j - 1,
                            Append(acc, Entry("same", left[i], right[j])))
    ELSE IF j > 0 /\ (i = 0 \/ dp[i + 1][j] >= dp[i][j + 1])
    THEN BacktrackAddedLeft(left, right, dp, i, j - 1,
                            Append(acc, Entry("added", IF i > 0 THEN left[i] ELSE <<>>,
                                              right[j])))
    ELSE BacktrackAddedLeft(left, right, dp, i - 1, j,
                            Append(acc, Entry("removed", left[i], <<>>)))

\* Backtrack with the loop condition i > 0 && j > 0
RECURSIVE BacktrackBothLeft(_, _, _, _, _, _)
BacktrackBothLeft(left, right, dp, i, j, acc) ==
    IF ~(i > 0 /\ j > 0) THEN acc
    ELSE IF i > 0 /\ j > 0 /\ left[i] = right[j]
    THEN BacktrackBothLeft(left, right, dp, i - 1, j - 1,
                           Append(acc, Entry("same", left[i], right[j])))
    ELSE IF j > 0 /\ (i = 0 \/ dp[i + 1][j] >= dp[i][j + 1])
    THEN BacktrackBothLeft(left, right, dp, i, j - 1,
                           Append(acc, Entry("added", <<>>, right[j])))
    ELSE BacktrackBothLeft(left, right, dp, i - 1, j,
                           Append(acc, Entry("removed", left[i], <<>>)))

\* Backtrack without `j -= 1` in the branch that pushes a same entry
RECURSIVE BacktrackSameKeepsJ(_, _, _, _, _, _)
BacktrackSameKeepsJ(left, right, dp, i, j, acc) ==
    IF ~(i > 0 \/ j > 0) THEN acc
    ELSE IF i > 0 /\ j > 0 /\ left[i] = right[j]
    THEN BacktrackSameKeepsJ(left, right, dp, i - 1, j,
                             Append(acc, Entry("same", left[i], right[j])))
    ELSE IF j > 0 /\ (i = 0 \/ dp[i + 1][j] >= dp[i][j + 1])
    THEN BacktrackSameKeepsJ(left, right, dp, i, j - 1,
                             Append(acc, Entry("added", <<>>, right[j])))
    ELSE BacktrackSameKeepsJ(left, right, dp, i - 1, j,
                             Append(acc, Entry("removed", left[i], <<>>)))

\* The while loop: entries are pushed while walking back from (m, n).
RECURSIVE Backtrack(_, _, _, _, _, _)
Backtrack(left, right, dp, i, j, acc) ==
    IF ~(i > 0 \/ j > 0) THEN acc
    ELSE IF i > 0 /\ j > 0 /\ left[i] = right[j]
    THEN Backtrack(left, right, dp, i - 1, j - 1,
                   Append(acc, Entry("same", left[i], right[j])))
    ELSE IF j > 0 /\ (i = 0 \/ dp[i + 1][j] >= dp[i][j + 1])
    THEN Backtrack(left, right, dp, i, j - 1,
                   Append(acc, Entry("added", <<>>, right[j])))
    ELSE Backtrack(left, right, dp, i - 1, j,
                   Append(acc, Entry("removed", left[i], <<>>)))

\* AlignLines with the equality test of the while loop tried after the table test
RECURSIVE BacktrackAddedFirst(_, _, _, _, _, _)
BacktrackAddedFirst(left, right, dp, i, j, acc) ==
    IF ~(i > 0 \/ j > 0) THEN acc
    ELSE IF j > 0 /\ (i = 0 \/ dp[i + 1][j] >= dp[i][j + 1])
    THEN BacktrackAddedFirst(left, right, dp, i, j - 1,
                             Append(acc, Entry("added", <<>>, right[j])))
    ELSE IF i > 0 /\ j > 0 /\ left[i] = right[j]
    THEN BacktrackAddedFirst(left, right, dp, i - 1, j - 1,
                             Append(acc, Entry("same", left[i], right[j])))
    ELSE BacktrackAddedFirst(left, right, dp, i - 1, j,
                             Append(acc, Entry("removed", left[i], <<>>)))

AlignLinesAddedFirst(left, right) ==
    Reverse(BacktrackAddedFirst(left, right, LcsTable(left, right),
                                Len(left), Len(right), <<>>))

\* AlignLines without diff.reverse()
AlignLinesNotReversed(left, right) ==
    Backtrack(left, right, LcsTable(left, right), Len(left), Len(right), <<>>)

\* Lines 52-84: table, backtracking, diff.reverse()
AlignLines(left, right) ==
    Reverse(Backtrack(left, right, LcsTable(left, right),
                      Len(left), Len(right), <<>>))

\* MergeFrom that tests the entry before the current one instead of the current one
RECURSIVE MergeFromLate(_, _, _)
MergeFromLate(d, k, acc) ==
    IF k > Len(d) THEN acc
    ELSE IF k > 1 /\ d[k - 1].type = "removed" /\ d[k].type = "removed"
            /\ k + 1 <= Len(d) /\ d[k + 1].type = "added"
    THEN MergeFromLate(d, k + 2,
                       Append(acc, Entry("changed", d[k].left, d[k + 1].right)))
    ELSE MergeFromLate(d, k + 1, Append(acc, d[k]))

\* MergeFrom testing next.type !== 'removed' for next.type === 'added'
RECURSIVE MergeFromNotRemoved(_, _, _)
MergeFromNotRemoved(d, k, acc) ==
    IF k > Len(d) THEN acc
    ELSE IF d[k].type = "removed" /\ k + 1 <= Len(d) /\ d[k + 1].type # "removed"
    THEN MergeFromNotRemoved(d, k + 2,
                             Append(acc, Entry("changed", d[k].left, d[k + 1].right)))
    ELSE MergeFromNotRemoved(d, k + 1, Append(acc, d[k]))

\* MergeFrom building the changed entry with its two texts exchanged
RECURSIVE MergeFromSwapped(_, _, _)
MergeFromSwapped(d, k, acc) ==
    IF k > Len(d) THEN acc
    ELSE IF d[k].type = "removed" /\ k + 1 <= Len(d) /\ d[k + 1].type = "added"
    THEN MergeFromSwapped(d, k + 2,
                          Append(acc, Entry("changed", d[k + 1].right, d[k].left)))
    ELSE MergeFromSwapped(d, k + 1, Append(acc, d[k]))

\* MergeFrom without the test of next.type: a removed entry is merged with
\* whatever entry follows it
RECURSIVE MergeFromAnyNext(_, _, _)
MergeFromAnyNext(d, k, acc) ==
    IF k > Len(d) THEN acc
    ELSE IF d[k].type = "removed" /\ k + 1 <= Len(d)
    THEN MergeFromAnyNext(d, k + 2,
                          Append(acc, Entry("changed", d[k].left, d[k + 1].right)))
    ELSE MergeFromAnyNext(d, k + 1, Append(acc, d[k]))

\* The merge loop body is run for k = 1..Len(d) (k is 0-based in the code)
RECURSIVE MergeFrom(_, _, _)
MergeFrom(d, k, acc) ==
    IF k > Len(d) THEN acc
    ELSE IF d[k].type = "removed" /\ k + 1 <= Len(d) /\ d[k + 1].type = "added"
    THEN MergeFrom(d, k + 2,
                   Append(acc, Entry("changed", d[k].left, d[k + 1].right)))
    ELSE MergeFrom(d, k + 1, Append(acc, d[k]))

\* MergeFrom without the `k += 1` after a changed entry is pushed
RECURSIVE MergeFromNoSkip(_, _, _)
MergeFromNoSkip(d, k, acc) ==
    IF k > Len(d) THEN acc
    ELSE IF d[k].type = "removed" /\ k + 1 <= Len(d) /\ d[k + 1].type = "added"
    THEN MergeFromNoSkip(d, k + 1,
                         Append(acc, Entry("changed", d[k].left, d[k + 1].right)))
    ELSE MergeFromNoSkip(d, k + 1, Append(acc, d[k]))

MergeDiffNoSkip(d) == MergeFromNoSkip(d, 1, <<>>)

\* MergeDiff building the changed entry from the wrong fields (next.left)
RECURSIVE MergeFromNextLeft(_, _, _)
MergeFromNextLeft(d, k, acc) ==
    IF k > Len(d) THEN acc
    ELSE IF d[k].type = "removed" /\ k + 1 <= Len(d) /\ d[k + 1].type = "added"
    THEN MergeFromNextLeft(d, k + 2,
                           Append(acc, Entry("changed", d[k + 1].left, d[k + 1].right)))
    ELSE MergeFromNextLeft(d, k + 1, Append(acc, d[k]))

MergeDiffNextLeft(d) == MergeFromNextLeft(d, 1, <<>>)

MergeDiff(d) == MergeFrom(d, 1, <<>>)

buildLineDiff(left, right) == MergeDiff(AlignLines(left, right))

\* ---------------------------------------------------------------- escapeHtml

\* String.prototype.replace(/c/g, rep) for a one-character pattern
RECURSIVE ReplaceAll(_, _, _)
ReplaceAll(str, c, rep) ==
    IF str = <<>> THEN <<>>
    ELSE (IF Head(str) = c THEN rep ELSE <<Head(str)>>) \o ReplaceAll(Tail(str), c, rep)

\* escapeHtml replacing & after the other four characters
escapeHtmlAmpLast(str) ==
    ReplaceAll(
      ReplaceAll(
        ReplaceAll(
          ReplaceAll(
            ReplaceAll(str, "<", <<"&", "l", "t", ";">>),
            ">", <<"&", "g", "t", ";">>),
          "\"", <<"&", "q", "u", "o", "t", ";">>),
        "'", <<"&", "#", "3", "9", ";">>),
      "&", <<"&", "a", "m", "p", ";">>)

escapeHtml(str) ==
    ReplaceAll(
      ReplaceAll(
        ReplaceAll(
          ReplaceAll(
            ReplaceAll(str, "&", <<"&", "a", "m", "p", ";">>),
            "<", <<"&", "l", "t", ";">>),
          ">", <<"&", "g", "t", ";">>),
        "\"", <<"&", "q", "u", "o", "t", ";">>),
      "'", <<"&", "#", "3", "9", ";">>)

\* -------------------------------------------------------------- buildDiffHtml

\* The two header cells (EMPTY_DIFF_HTML)
EmptyDiffHtml ==
    <<"<div class=\"diff-header\">Left</div>", "<div class=\"diff-header\">Right</div>">>

\* `<div class="diff-cell ${val ? '' : 'diff-empty'}">${escapeHtml(val || ' ')}</div>`
DiffCell(val) ==
    <<"<div class=\"diff-cell ">>
    \o (IF val # <<>> THEN <<>> ELSE <<"diff-empty">>)
    \o <<"\">">>
    \o escapeHtml(IF val # <<>> THEN val ELSE <<" ">>)
    \o <<"</div>">>

\* DiffRow with the right cell before the left cell
DiffRowSwapped(entry) ==
    <<"<div class=\"diff-row diff-", entry.type, "\">">>
    \o DiffCell(entry.right) \o DiffCell(entry.left)
    \o <<"</div>">>

\* `<div class="diff-row diff-${entry.type}">${leftCell}${rightCell}</div>`
DiffRow(entry) ==
    <<"<div class=\"diff-row diff-", entry.type, "\">">>
    \o DiffCell(entry.left) \o DiffCell(entry.right)
    \o <<"</div>">>

RECURSIVE JoinRows(_)
JoinRows(entries) ==
    IF entries = <<>> THEN <<>>
    ELSE DiffRow(Head(entries)) \o JoinRows(Tail(entries))

buildDiffHtml(entries) ==
    IF Len(entries) = 0 THEN EmptyDiffHtml
    ELSE EmptyDiffHtml \o JoinRows(entries)

\* -------------------------------------------------------------- serializeDiff

\* DiffLine taking the text of an added entry from entry.left
DiffLineAddedLeft(entry) ==
    IF entry.type = "same" THEN <<" ", " ">> \o entry.left
    ELSE IF entry.type = "added" THEN <<"+", " ">> \o entry.left
    ELSE IF entry.type = "removed" THEN <<"-", " ">> \o entry.left
    ELSE IF entry.type = "changed"
    THEN <<"-", " ">> \o entry.left \o <<"\n", "+", " ">> \o entry.right
    ELSE <<>>

DiffLine(entry) ==
    IF entry.type = "same" THEN <<" ", " ">> \o entry.left
    ELSE IF entry.type = "added" THEN <<"+", " ">> \o entry.right
    ELSE IF entry.type = "removed" THEN <<"-", " ">> \o entry.left
    ELSE IF entry.type = "changed"
    THEN <<"-", " ">> \o entry.left \o <<"\n", "+", " ">> \o entry.right
    ELSE <<>>

\* entries.map(...).join('\n')
RECURSIVE JoinLines(_, _)
JoinLines(entries, k) ==
    IF k > Len(entries) THEN <<>>
    ELSE DiffLine(entries[k])
         \o (IF k = Len(entries) THEN <<>> ELSE <<"\n">> \o JoinLines(entries, k + 1))

serializeDiff(entries) == JoinLines(entries, 1)

\* ---------------------------------------------------------------- DiffSpec
\* buildLineDiff run on its own, on all pairs of short line sequences.

MaxLines == 3

\* Lines: the empty line, two others, and one that differs from "a" by a
\* trailing space only
LineAlphabet == {<<>>, <<"a">>, <<"b">>, <<"a", " ">>}

LineSeqs == SeqsUpTo(LineAlphabet, MaxLines)

DiffIdle ==
    /\ pc = "idle"
    /\ leftLines = <<>>
    /\ rightLines = <<>>
    /\ diff = <<>>
    /\ merged = <<>>
    /\ dpTable = <<>>
    /\ displayHtml = <<>>
    /\ unifiedText = <<>>

DiffInit ==
    /\ pc = "start"
    /\ leftLines \in LineSeqs
    /\ rightLines \in LineSeqs
    /\ diff = <<>>
    /\ merged = <<>>
    /\ dpTable = <<>>
    /\ displayHtml = <<>>
    /\ unifiedText = <<>>

Align ==
    /\ pc = "start"
    /\ dpTable' = LcsTable(leftLines, rightLines)
    /\ diff' = AlignLines(leftLines, rightLines)
    /\ pc' = "aligned"
    /\ UNCHANGED <<leftLines, rightLines, merged, displayHtml, unifiedText>>
    /\ UNCHANGED <<sessionVars, ioVars, normVars, escVars, tabVars>>

Merge ==
    /\ pc = "aligned"
    /\ merged' = MergeDiff(diff)
    /\ pc' = "merged"
    /\ UNCHANGED <<leftLines, rightLines, diff, dpTable, displayHtml, unifiedText>>
    /\ UNCHANGED <<sessionVars, ioVars, normVars, escVars, tabVars>>

\* The two projections of the returned entries (lines 218-219)
Project ==
    /\ pc = "merged"
    /\ displayHtml' = buildDiffHtml(merged)
    /\ unifiedText' = serializeDiff(merged)
    /\ pc' = "projected"
    /\ UNCHANGED <<leftLines, rightLines, diff, merged, dpTable>>
    /\ UNCHANGED <<sessionVars, ioVars, normVars, escVars, tabVars>>

\* ------------------------------------------------------------ the compare tab
\* compareLeft / compareRight are the values of the two text areas,
\* diffContainer is diffContainer.innerHTML, statusText / statusClass are
\* statusMessage.textContent and the last word of statusMessage.className.
\* lastCall and lastDiff are history variables: the handler that ran last with
\* the side whose normalizedJson call threw, and the entries returned by
\* buildLineDiff in the most recent compare that succeeded.

\* The check mark U+2713 that starts the success messages
CheckMark == "U+2713"

\* `${error}` for the SyntaxError of JSON.parse: its name and a message fixed
\* by the text that was parsed
ErrorString(error) ==
    <<error.name, ": ", "JSON.parse: unexpected character at ">> \o NatToDigits(error.pos)

\* showStatus(message, isError); the timer it starts is HideStatus
ShowStatus(message, isError) ==
    /\ statusText' = message
    /\ statusClass' = IF isError THEN "error" ELSE "success"

\* renderDiffHtml(html)
\* renderDiffHtml adding to the markup that is there (innerHTML += html)
RenderDiffHtmlAppending(html) == diffContainer' = diffContainer \o html

RenderDiffHtml(html) == diffContainer' = html

\* What a handler hands to the clipboard or to a new window: nothing
NoEffect == [kind |-> "none", text |-> <<>>]

Call(op, side, threw) ==
    [op |-> op, side |-> side, threw |-> threw, hadDiff |-> lastDiffHtml # <<>>,
     issued |-> NoEffect]

\* Texts the user puts into the text areas: not JSON (the empty text, an
\* unclosed object), and three objects of which the first two differ only in
\* key order and spacing
SessionTexts ==
    { <<>>,
      <<"{", "\"", "a", "\"", ":">>,
      <<"{", "\"", "b", "\"", ":", "1", ",", "\"", "a", "\"", ":", "2", "}">>,
      <<"{", " ", "\"", "a", "\"", ":", "2", ",", "\n", "\"", "b", "\"", ":", "1", "}">>,
      <<"{", "\"", "a", "\"", ":", "2", ",", "\"", "b", "\"", ":", "[", "\"", "<", "\"", "]", "}">> }

\* Module load: empty text areas, no last result, the header rendered
SessionInit ==
    /\ compareLeft = <<>>
    /\ compareRight = <<>>
    /\ lastDiffText = <<>>
    /\ lastDiffHtml = <<>>
    /\ diffContainer = EmptyDiffHtml
    /\ statusText = <<>>
    /\ statusClass = "hidden"
    /\ lastCall = [op |-> "load", side |-> "none", threw |-> "none", hadDiff |-> FALSE,
                   issued |-> NoEffect]
    /\ lastDiff = <<>>
    /\ copyPending = 0

\* The user replaces the content of a text area
EditLeft ==
    /\ \E t \in SessionTexts : compareLeft' = t
    /\ lastCall' = Call("edit", "left", "none")
    /\ UNCHANGED <<compareRight, lastDiffText, lastDiffHtml, diffContainer,
                   statusText, statusClass, lastDiff>>
    /\ UNCHANGED <<ioVars, diffVars, normVars, escVars, tabVars>>

EditRight ==
    /\ \E t \in SessionTexts : compareRight' = t
    /\ lastCall' = Call("edit", "right", "none")
    /\ UNCHANGED <<compareLeft, lastDiffText, lastDiffHtml, diffContainer,
                   statusText, statusClass, lastDiff>>
    /\ UNCHANGED <<ioVars, diffVars, normVars, escVars, tabVars>>

\* handleBeautifyCompare that resets the last result in its catch block
BeautifyLeftResetting ==
    LET r == normalizedJson(compareLeft)
    IN  /\ IF r.ok
           THEN /\ compareLeft' = r.text
                /\ ShowStatus(<<CheckMark, " Left JSON beautified">>, FALSE)
                /\ lastCall' = Call("beautify", "left", "none")
                /\ UNCHANGED <<lastDiffText, lastDiffHtml, diffContainer>>
           ELSE /\ ShowStatus(<<"Error: ">> \o ErrorString(r.error), TRUE)
                /\ lastCall' = Call("beautify", "left", "left")
                /\ lastDiffText' = <<>>
                /\ lastDiffHtml' = <<>>
                /\ RenderDiffHtml(EmptyDiffHtml)
                /\ UNCHANGED compareLeft
        /\ UNCHANGED <<compareRight, lastDiff>>
        /\ UNCHANGED <<ioVars, diffVars, normVars, escVars, tabVars>>

\* handleBeautifyCompare('left')
BeautifyLeft ==
    LET r == normalizedJson(compareLeft)
    IN  /\ IF r.ok
           THEN /\ compareLeft' = r.text
                /\ ShowStatus(<<CheckMark, " Left JSON beautified">>, FALSE)
                /\ lastCall' = Call("beautify", "left", "none")
           ELSE /\ ShowStatus(<<"Error: ">> \o ErrorString(r.error), TRUE)
                /\ lastCall' = Call("beautify", "left", "left")
                /\ UNCHANGED compareLeft
        /\ UNCHANGED <<compareRight, lastDiffText, lastDiffHtml, diffContainer, lastDiff>>
        /\ UNCHANGED <<ioVars, diffVars, normVars, escVars, tabVars>>

\* handleBeautifyCompare('right')
BeautifyRight ==
    LET r == normalizedJson(compareRight)
    IN  /\ IF r.ok
           THEN /\ compareRight' = r.text
                /\ ShowStatus(<<CheckMark, " Right JSON beautified">>, FALSE)
                /\ lastCall' = Call("beautify", "right", "none")
           ELSE /\ ShowStatus(<<"Error: ">> \o ErrorString(r.error), TRUE)
                /\ lastCall' = Call("beautify", "right", "right")
                /\ UNCHANGED compareRight
        /\ UNCHANGED <<compareLeft, lastDiffText, lastDiffHtml, diffContainer, lastDiff>>
        /\ UNCHANGED <<ioVars, diffVars, normVars, escVars, tabVars>>

\* The try block of handleCompare once both texts are normalized
CompareSucceeds(leftFormatted, rightFormatted) ==
    LET d == buildLineDiff(SplitLines(leftFormatted), SplitLines(rightFormatted))
    IN  /\ compareLeft' = leftFormatted
        /\ compareRight' = rightFormatted
        /\ lastDiffHtml' = buildDiffHtml(d)
        /\ lastDiffText' = serializeDiff(d)
        /\ RenderDiffHtml(buildDiffHtml(d))
        /\ ShowStatus(<<CheckMark, " Comparison complete">>, FALSE)
        /\ lastDiff' = d
        /\ lastCall' = Call("compare", "none", "none")

\* CompareFails without the renderDiffHtml call
CompareFailsNoRender(error, side) ==
    /\ lastDiffText' = <<>>
    /\ lastDiffHtml' = <<>>
    /\ ShowStatus(<<"Error: ">> \o ErrorString(error), TRUE)
    /\ lastCall' = Call("compare", "none", side)
    /\ UNCHANGED <<compareLeft, compareRight, lastDiff, diffContainer>>

\* CompareFails that clears lastDiffText only
CompareFailsKeepsHtml(error, side) ==
    /\ lastDiffText' = <<>>
    /\ RenderDiffHtml(EmptyDiffHtml)
    /\ ShowStatus(<<"Error: ">> \o ErrorString(error), TRUE)
    /\ lastCall' = Call("compare", "none", side)
    /\ UNCHANGED <<compareLeft, compareRight, lastDiff, lastDiffHtml>>

\* The catch block of handleCompare; `side` is the text area whose
\* normalizedJson call threw `error`
CompareFails(error, side) ==
    /\ lastDiffText' = <<>>
    /\ lastDiffHtml' = <<>>
    /\ RenderDiffHtml(EmptyDiffHtml)
    /\ ShowStatus(<<"Error: ">> \o ErrorString(error), TRUE)
    /\ lastCall' = Call("compare", "none", side)
    /\ UNCHANGED <<compareLeft, compareRight, lastDiff>>

\* handleCompare that normalizes the right text before the left one
CompareRightFirst ==
    LET l == normalizedJson(compareLeft)
        r == normalizedJson(compareRight)
    IN  /\ IF ~r.ok THEN CompareFails(r.error, "right")
           ELSE IF ~l.ok THEN CompareFails(l.error, "left")
           ELSE CompareSucceeds(l.text, r.text)
        /\ UNCHANGED <<ioVars, diffVars, normVars, escVars, tabVars>>

\* handleCompare writing each text area as soon as its text is normalized
CompareFieldByField ==
    LET l == normalizedJson(compareLeft)
        r == normalizedJson(compareRight)
    IN  /\ IF ~l.ok THEN CompareFails(l.error, "left")
           ELSE IF ~r.ok
           THEN /\ compareLeft' = l.text
                /\ lastDiffText' = <<>>
                /\ lastDiffHtml' = <<>>
                /\ RenderDiffHtml(EmptyDiffHtml)
                /\ ShowStatus(<<"Error: ">> \o ErrorString(r.error), TRUE)
                /\ lastCall' = Call("compare", "none", "right")
                /\ UNCHANGED <<compareRight, lastDiff>>
           ELSE CompareSucceeds(l.text, r.text)
        /\ UNCHANGED <<ioVars, diffVars, normVars, escVars, tabVars>>

\* handleCompare
Compare ==
    LET l == normalizedJson(compareLeft)
        r == normalizedJson(compareRight)
    IN  /\ IF ~l.ok THEN CompareFails(l.error, "left")
           ELSE IF ~r.ok THEN CompareFails(r.error, "right")
           ELSE CompareSucceeds(l.text, r.text)
        /\ UNCHANGED <<ioVars, diffVars, normVars, escVars, tabVars>>

\* Clipboard writes in flight at one time
MaxPending == 1

\* handleCopyDiff without the test of lastDiffText
CopyDiffUnguarded ==
    /\ copyPending < MaxPending
    /\ copyPending' = copyPending + 1
    /\ lastCall' = [Call("copy", "none", "none") EXCEPT
                       !.issued = [kind |-> "clipboard", text |-> lastDiffText]]
    /\ UNCHANGED <<compareLeft, compareRight, lastDiffText, lastDiffHtml,
                   diffContainer, statusText, statusClass, lastDiff>>
    /\ UNCHANGED <<diffVars, normVars, escVars, tabVars>>

\* handleCopyDiff up to its await: the text is handed to navigator.clipboard
\* or, where that is missing, to the clipboard plugin (one write either way)
CopyDiff ==
    /\ IF lastDiffText = <<>>
       THEN /\ ShowStatus(<<"No diff to copy">>, TRUE)
            /\ lastCall' = Call("copy", "none", "none")
            /\ UNCHANGED copyPending
       ELSE /\ copyPending < MaxPending
            /\ copyPending' = copyPending + 1
            /\ lastCall' = [Call("copy", "none", "none") EXCEPT
                               !.issued = [kind |-> "clipboard", text |-> lastDiffText]]
            /\ UNCHANGED <<statusText, statusClass>>
    /\ UNCHANGED <<compareLeft, compareRight, lastDiffText, lastDiffHtml,
                   diffContainer, lastDiff>>
    /\ UNCHANGED <<diffVars, normVars, escVars, tabVars>>

\* handleCopyDiff after its await: the write resolved or was rejected
CopySettles ==
    /\ copyPending > 0
    /\ copyPending' = copyPending - 1
    /\ \E resolved \in BOOLEAN :
          IF resolved
          THEN ShowStatus(<<CheckMark, " Diff copied to clipboard">>, FALSE)
          ELSE ShowStatus(<<"Error: Failed to copy diff - ", "error">>, TRUE)
    /\ lastCall' = Call("copy-settled", "none", "none")
    /\ UNCHANGED <<compareLeft, compareRight, lastDiffText, lastDiffHtml,
                   diffContainer, lastDiff>>
    /\ UNCHANGED <<diffVars, normVars, escVars, tabVars>>

\* buildDiffDocument(htmlContent): the page around the markup
buildDiffDocument(htmlContent) ==
    <<"<!DOCTYPE html>...<body>\n<div class=\"diff-panel\">">>
    \o htmlContent
    \o <<"</div>\n</body>\n</html>">>

\* openDiffWindow; window.open may return null
OpenDiffWindow ==
    /\ IF lastDiffHtml = <<>>
       THEN /\ ShowStatus(<<"No diff to open">>, TRUE)
            /\ lastCall' = Call("open", "none", "none")
       ELSE \E win \in {"null", "window"} :
               IF win = "null"
               THEN /\ ShowStatus(<<"Popup blocked: allow popups to view diff">>, TRUE)
                    /\ lastCall' = Call("open", "none", "none")
               ELSE /\ lastCall' = [Call("open", "none", "none") EXCEPT
                                       !.issued = [kind |-> "window",
                                                   text |-> buildDiffDocument(lastDiffHtml)]]
                    /\ UNCHANGED <<statusText, statusClass>>
    /\ UNCHANGED <<compareLeft, compareRight, lastDiffText, lastDiffHtml,
                   diffContainer, lastDiff>>
    /\ UNCHANGED <<ioVars, diffVars, normVars, escVars, tabVars>>

\* Clear without the renderDiffHtml call
ClearNoRender ==
    /\ statusClass' = "hidden"
    /\ compareLeft' = <<>>
    /\ compareRight' = <<>>
    /\ lastDiffText' = <<>>
    /\ lastDiffHtml' = <<>>
    /\ lastCall' = Call("clear", "none", "none")
    /\ UNCHANGED <<statusText, lastDiff, diffContainer>>
    /\ UNCHANGED <<ioVars, diffVars, normVars, escVars, tabVars>>

\* handleClear (the converter fields it also empties are not modelled)
Clear ==
    /\ statusClass' = "hidden"
    /\ compareLeft' = <<>>
    /\ compareRight' = <<>>
    /\ lastDiffText' = <<>>
    /\ lastDiffHtml' = <<>>
    /\ RenderDiffHtml(EmptyDiffHtml)
    /\ lastCall' = Call("clear", "none", "none")
    /\ UNCHANGED <<statusText, lastDiff>>
    /\ UNCHANGED <<ioVars, diffVars, normVars, escVars, tabVars>>

\* The setTimeout callback of showStatus
HideStatus ==
    /\ statusClass # "hidden"
    /\ statusClass' = "hidden"
    /\ UNCHANGED <<compareLeft, compareRight, lastDiffText, lastDiffHtml,
                   diffContainer, statusText, lastCall, lastDiff>>
    /\ UNCHANGED <<ioVars, diffVars, normVars, escVars, tabVars>>

\* ---------------------------------------------------------------- NormSpec
\* normalizedJson run on its own, on JSON texts written out from syntax trees:
\* a literal, an array of trees, or an object as its members in source order
\* (a key may be repeated).

\* Nodes (literals, arrays, objects) of a tree
MaxNodes == 4

\* Scalars as they are written: -0 and the string "\/"
LiteralPool ==
    { <<"-", "0">>, <<"\"", "\\", "/", "\"">> }

\* The place of a key in the pool; the members of a generated object are
\* written with their keys in this order (Reorder gives the other orders)
KeyOrder == << <<"b">>, <<"a">>, <<"1", "0">>, <<"2">> >>

KeyPool == {KeyOrder[k] : k \in 1..Len(KeyOrder)}

KeyIndex(key) == CHOOSE k \in 1..Len(KeyOrder) : KeyOrder[k] = key

\* Trees by size: level k + 1 holds the trees with k nodes, the sequences of
\* trees with k nodes in all, and the member sequences whose values have k
\* nodes in all. Grown from the sizes below, up to maxN.
RECURSIVE GrowTrees(_, _)
GrowTrees(lv, maxN) ==
    LET n == Len(lv)
        trees == IF n = 1
                 THEN {[t |-> "lit", v |-> l] : l \in LiteralPool}
                      \cup {[t |-> "arr", v |-> <<>>], [t |-> "obj", v |-> <<>>]}
                 ELSE {[t |-> "arr", v |-> q] : q \in lv[n].seqs}
                      \cup {[t |-> "obj", v |-> m] : m \in lv[n].members}
        of(k) == IF k = n THEN trees ELSE lv[k + 1].trees
        seqs == UNION {{<<v>> \o rest : v \in of(k), rest \in lv[n - k + 1].seqs} :
                       k \in 1..n}
        after(key, k) == {r \in lv[n - k + 1].members :
                             r = <<>> \/ KeyIndex(key) <= KeyIndex(r[1].k)}
        members ==
            UNION {UNION {{<<[k |-> key, v |-> v]>> \o rest :
                              v \in of(k), rest \in after(key, k)} :
                          key \in KeyPool} :
                   k \in 1..n}
    IN  IF n > maxN THEN lv
        ELSE IF n = maxN
        THEN Append(lv, [trees |-> trees, seqs |-> {}, members |-> {}])
        ELSE GrowTrees(Append(lv, [trees |-> trees, seqs |-> seqs, members |-> members]),
                       maxN)

TreesUpTo(maxN) ==
    LET lv == GrowTrees(<<[trees |-> {}, seqs |-> {<<>>}, members |-> {<<>>}]>>, maxN)
    IN  UNION {lv[k].trees : k \in 1..Len(lv)}

RECURSIVE Render(_, _)
RECURSIVE RenderItems(_, _, _, _)

RenderItems(items, k, ws, isObj) ==
    (IF isObj
     THEN <<"\"">> \o items[k].k \o <<"\"">> \o ws \o <<":">> \o ws \o Render(items[k].v, ws)
     ELSE Render(items[k], ws))
    \o ws
    \o (IF k = Len(items) THEN <<>>
        ELSE <<",">> \o ws \o RenderItems(items, k + 1, ws, isObj))

\* The tree as JSON text, with the whitespace ws between all tokens
Render(tree, ws) ==
    IF tree.t = "lit" THEN tree.v
    ELSE (IF tree.t = "arr" THEN <<"[">> ELSE <<"{">>)
         \o ws
         \o (IF tree.v = <<>> THEN <<>> ELSE RenderItems(tree.v, 1, ws, tree.t = "obj"))
         \o (IF tree.t = "arr" THEN <<"]">> ELSE <<"}">>)

\* The same members in another source order, in every object of the tree
RECURSIVE Reorder(_, _)
Reorder(tree, mode) ==
    IF tree.t = "lit" THEN tree
    ELSE IF tree.t = "arr"
    THEN [t |-> "arr", v |-> [k \in 1..Len(tree.v) |-> Reorder(tree.v[k], mode)]]
    ELSE LET n == Len(tree.v)
             from(k) == IF mode = "reverse" THEN n + 1 - k
                        ELSE IF mode = "rotate" THEN (k % n) + 1
                        ELSE k
         IN  [t |-> "obj",
              v |-> [k \in 1..n |-> [k |-> tree.v[from(k)].k,
                                     v |-> Reorder(tree.v[from(k)].v, mode)]]]

\* How normB differs from normA: the order of the members, the whitespace
Variants ==
    { [order |-> "reverse", ws |-> <<"\n", " ">>],
      [order |-> "rotate", ws |-> <<>>] }

NoResult == [ok |-> FALSE, error |-> [name |-> "none", pos |-> 0]]

NormInit ==
    /\ normPc = "start"
    /\ \E tree \in TreesUpTo(MaxNodes), var \in Variants :
          /\ normA = Render(tree, <<>>)
          /\ normB = Render(Reorder(tree, var.order), var.ws)
    /\ outA = NoResult
    /\ outB = NoResult
    /\ outAA = NoResult
    /\ outBB = NoResult

\* normalizedJson(normA), normalizedJson(normB)
Normalize ==
    /\ normPc = "start"
    /\ outA' = normalizedJson(normA)
    /\ outB' = normalizedJson(normB)
    /\ normPc' = "once"
    /\ UNCHANGED <<normA, normB, outAA, outBB>>
    /\ UNCHANGED <<sessionVars, ioVars, diffVars, escVars, tabVars>>

\* normalizedJson applied again to the two results
NormalizeAgain ==
    /\ normPc = "once"
    /\ outA.ok /\ outB.ok
    /\ outAA' = normalizedJson(outA.text)
    /\ outBB' = normalizedJson(outB.text)
    /\ normPc' = "twice"
    /\ UNCHANGED <<normA, normB, outA, outB>>
    /\ UNCHANGED <<sessionVars, ioVars, diffVars, escVars, tabVars>>

NormIdle ==
    /\ normPc = "idle"
    /\ normA = <<>>
    /\ normB = <<>>
    /\ outA = NoResult
    /\ outB = NoResult
    /\ outAA = NoResult
    /\ outBB = NoResult

\* ----------------------------------------------------------------- EscSpec
\* escapeHtml run on its own, on all short strings over the characters it
\* replaces and the letters of an entity, and buildDiffHtml on a diff that
\* has such a string as a line.

MaxChars == 4

EscAlphabet == {"&", "<", ">", "\"", "'", "l", "t", ";"}

EscIdle ==
    /\ escPc = "idle"
    /\ escInput = <<>>
    /\ escOutput = <<>>
    /\ escMarkup = <<>>

EscInit ==
    /\ escPc = "start"
    /\ escInput \in SeqsUpTo(EscAlphabet, MaxChars)
    /\ escOutput = <<>>
    /\ escMarkup = <<>>

Escape ==
    /\ escPc = "start"
    /\ escOutput' = escapeHtml(escInput)
    /\ escPc' = "escaped"
    /\ UNCHANGED <<escInput, escMarkup>>
    /\ UNCHANGED <<sessionVars, ioVars, diffVars, normVars, tabVars>>

\* The display markup for the line escInput against the line "t"
RenderEscaped ==
    /\ escPc = "escaped"
    /\ escMarkup' = buildDiffHtml(buildLineDiff(<<escInput>>, << <<"t">> >>))
    /\ escPc' = "rendered"
    /\ UNCHANGED <<escInput, escOutput>>
    /\ UNCHANGED <<sessionVars, ioVars, diffVars, normVars, tabVars>>

\* ---------------------------------------------------------------- ZoomSpec
\* The Mermaid tab (src/unnamed/part_000): zoom and pan of the diagram
\* preview. The text of mermaidInput and the CSS classes that the drag
\* handlers toggle are not modelled; the user can edit the text before every
\* render, so handleRenderMermaid takes it as an input.

ZOOM_STEP == 10

ZOOM_MIN == 10

ZOOM_MAX == 300

\* Mouse positions: clientX and clientY are in 0..MaxPointer
MaxPointer == 1

\* Drags are followed while panX and panY stay within -MaxPan..MaxPan
MaxPan == 1

\* mermaid.render calls in flight at one time
MaxRenders == 1

Pointer == 0..MaxPointer

PanRange == (0 - MaxPan)..MaxPan

Min(a, b) == IF a <= b THEN a ELSE b

\* mermaidPreview.innerHTML without a .mermaid-preview-content element:
\* the placeholder, nothing, or the error message
NoContent(kind) == [kind |-> kind, transform |-> <<>>]

\* `<div class="mermaid-preview-content" style="transform: scale(${currentZoom / 100}) translate(${panX}px, ${panY}px)">`
Content(zoom, x, y) == [kind |-> "content", transform |-> <<zoom, x, y>>]

ZoomCall(op) == [op |-> op, before |-> currentZoom]

ZoomInit ==
    /\ currentZoom = 100
    /\ panX = 0
    /\ panY = 0
    /\ isDragMode = FALSE
    /\ isDragging = FALSE
    /\ dragStartX = 0
    /\ dragStartY = 0
    /\ mermaidPreview = NoContent("placeholder")
    /\ zoomLevel = 100
    /\ rendering = 0
    /\ zoomCall = [op |-> "none", before |-> 100]

\* updateZoom, called after currentZoom, panX and panY are assigned
updateZoom ==
    /\ mermaidPreview' = IF mermaidPreview.kind = "content"
                         THEN Content(currentZoom', panX', panY')
                         ELSE mermaidPreview
    /\ zoomLevel' = currentZoom'

\* handleZoomIn without the test against ZOOM_MAX and without Math.min
ZoomInUnclamped ==
    /\ currentZoom' = currentZoom + ZOOM_STEP
    /\ UNCHANGED <<panX, panY>>
    /\ updateZoom
    /\ zoomCall' = ZoomCall("in")
    /\ UNCHANGED <<isDragMode, isDragging, dragStartX, dragStartY, rendering>>

\* The body of handleZoomIn
ZoomIn ==
    /\ IF currentZoom < ZOOM_MAX
       THEN /\ currentZoom' = Min(currentZoom + ZOOM_STEP, ZOOM_MAX)
            /\ UNCHANGED <<panX, panY>>
            /\ updateZoom
       ELSE UNCHANGED <<currentZoom, panX, panY, mermaidPreview, zoomLevel>>
    /\ zoomCall' = ZoomCall("in")
    /\ UNCHANGED <<isDragMode, isDragging, dragStartX, dragStartY, rendering>>

\* The body of handleZoomOut
ZoomOut ==
    /\ IF currentZoom > ZOOM_MIN
       THEN /\ currentZoom' = Max(currentZoom - ZOOM_STEP, ZOOM_MIN)
            /\ UNCHANGED <<panX, panY>>
            /\ updateZoom
       ELSE UNCHANGED <<currentZoom, panX, panY, mermaidPreview, zoomLevel>>
    /\ zoomCall' = ZoomCall("out")
    /\ UNCHANGED <<isDragMode, isDragging, dragStartX, dragStartY, rendering>>

\* A click on zoomInBtn
handleZoomIn ==
    /\ ZoomIn
    /\ UNCHANGED <<sessionVars, ioVars, diffVars, normVars, escVars, imageVars>>

\* A click on zoomOutBtn
handleZoomOut ==
    /\ ZoomOut
    /\ UNCHANGED <<sessionVars, ioVars, diffVars, normVars, escVars, imageVars>>

handleZoomReset ==
    /\ currentZoom' = 100
    /\ panX' = 0
    /\ panY' = 0
    /\ updateZoom
    /\ zoomCall' = ZoomCall("reset")
    /\ UNCHANGED <<isDragMode, isDragging, dragStartX, dragStartY, rendering>>
    /\ UNCHANGED <<sessionVars, ioVars, diffVars, normVars, escVars, imageVars>>

\* The wheel listener of mermaidPreview; modifier is e.ctrlKey || e.metaKey
WheelZoom ==
    \E modifier \in BOOLEAN, deltaY \in {-1, 0, 1} :
        /\ IF modifier
           THEN IF deltaY < 0 THEN ZoomIn ELSE ZoomOut
           ELSE /\ zoomCall' = ZoomCall("other")
                /\ UNCHANGED <<currentZoom, panX, panY, mermaidPreview, zoomLevel,
                               isDragMode, isDragging, dragStartX, dragStartY, rendering>>
        /\ UNCHANGED <<sessionVars, ioVars, diffVars, normVars, escVars, imageVars>>

toggleDragMode ==
    /\ isDragMode' = ~isDragMode
    /\ zoomCall' = ZoomCall("other")
    /\ UNCHANGED <<currentZoom, panX, panY, isDragging, dragStartX, dragStartY,
                   mermaidPreview, zoomLevel, rendering>>
    /\ UNCHANGED <<sessionVars, ioVars, diffVars, normVars, escVars, imageVars>>

\* mousedown on mermaidPreview at (x, y)
handleDragStart ==
    \E x \in Pointer, y \in Pointer :
        /\ IF isDragMode /\ mermaidPreview.kind = "content"
           THEN /\ isDragging' = TRUE
                /\ dragStartX' = x - panX
                /\ dragStartY' = y - panY
           ELSE UNCHANGED <<isDragging, dragStartX, dragStartY>>
        /\ zoomCall' = ZoomCall("other")
        /\ UNCHANGED <<currentZoom, panX, panY, isDragMode, mermaidPreview, zoomLevel,
                       rendering>>
        /\ UNCHANGED <<sessionVars, ioVars, diffVars, normVars, escVars, imageVars>>

\* mousemove on the document at (x, y)
handleDragMove ==
    \E x \in Pointer, y \in Pointer :
        /\ IF isDragging
           THEN /\ x - dragStartX \in PanRange
                /\ y - dragStartY \in PanRange
                /\ panX' = x - dragStartX
                /\ panY' = y - dragStartY
                /\ mermaidPreview' = IF mermaidPreview.kind = "content"
                                     THEN Content(currentZoom, panX', panY')
                                     ELSE mermaidPreview
           ELSE UNCHANGED <<panX, panY, mermaidPreview>>
        /\ zoomCall' = ZoomCall("other")
        /\ UNCHANGED <<currentZoom, isDragMode, isDragging, dragStartX, dragStartY,
                       zoomLevel, rendering>>
        /\ UNCHANGED <<sessionVars, ioVars, diffVars, normVars, escVars, imageVars>>

\* mouseup on the document
handleDragEnd ==
    /\ isDragging' = FALSE
    /\ zoomCall' = ZoomCall("other")
    /\ UNCHANGED <<currentZoom, panX, panY, isDragMode, dragStartX, dragStartY,
                   mermaidPreview, zoomLevel, rendering>>
    /\ UNCHANGED <<sessionVars, ioVars, diffVars, normVars, escVars, imageVars>>

\* handleRenderMermaid up to the awaited mermaid.render; hasCode is whether
\* mermaidInput.value.trim() is not empty
handleRenderMermaid ==
    \E hasCode \in BOOLEAN :
        /\ IF hasCode
           THEN /\ rendering < MaxRenders
                /\ mermaidPreview' = NoContent("empty")
                /\ rendering' = rendering + 1
           ELSE /\ mermaidPreview' = NoContent("placeholder")
                /\ UNCHANGED rendering
        /\ zoomCall' = ZoomCall("other")
        /\ UNCHANGED <<currentZoom, panX, panY, isDragMode, isDragging, dragStartX,
                       dragStartY, zoomLevel>>
        /\ UNCHANGED <<sessionVars, ioVars, diffVars, normVars, escVars, imageVars>>

\* handleRenderMermaid after the await: the diagram wrapped with the current
\* transform, or the catch block
RenderSettles ==
    \E resolved \in BOOLEAN :
        /\ rendering > 0
        /\ rendering' = rendering - 1
        /\ IF resolved
           THEN /\ mermaidPreview' = Content(currentZoom, panX, panY)
                /\ ShowStatus(<<CheckMark, " Diagram rendered successfully">>, FALSE)
           ELSE /\ mermaidPreview' = NoContent("error")
                /\ ShowStatus(<<"Error rendering Mermaid diagram">>, TRUE)
        /\ zoomCall' = ZoomCall("other")
        /\ UNCHANGED <<currentZoom, panX, panY, isDragMode, isDragging, dragStartX,
                       dragStartY, zoomLevel>>
        /\ UNCHANGED <<compareVars, ioVars, diffVars, normVars, escVars, imageVars>>

handleClearMermaid ==
    /\ mermaidPreview' = NoContent("placeholder")
    /\ currentZoom' = 100
    /\ panX' = 0
    /\ panY' = 0
    /\ zoomLevel' = 100
    /\ ShowStatus(<<"Mermaid editor cleared!">>, FALSE)
    /\ zoomCall' = ZoomCall("clear")
    /\ UNCHANGED <<isDragMode, isDragging, dragStartX, dragStartY, rendering>>
    /\ UNCHANGED <<compareVars, ioVars, diffVars, normVars, escVars, imageVars>>

\* ---------------------------------------------------------------- ImageSpec
\* The image tab (src/unnamed/part_000). An image is a number in 1..MaxImages
\* and its data URL is the same number; 0 is null. What is computed from an
\* image carries the number of that image. The resize settings, the info
\* texts and the CSS classes of the previews are not modelled. The buttons
\* start as handleClearImage leaves them; a click reaches a handler only
\* while its button is enabled.

\* Image files the user can choose from
MaxImages == 2

Images == 1..MaxImages

NoData == [from |-> 0, how |-> "none"]

\* A data URL computed from the image `from`: canvas.toDataURL after a
\* resize ("resize") or a plain draw ("png"), or the backend's result ("bg")
Data(from, how) == [from |-> from, how |-> how]

\* `<div class="image-placeholder">...</div>`
Placeholder(text) == [text |-> text, data |-> NoData]

\* `<div class="image-preview-content"><img src="${resizedImageData}" ...></div>`
Shown(data) == [text |-> "", data |-> data]

ImageInit ==
    /\ originalImage = 0
    /\ originalImageData = 0
    /\ resizedImageData = NoData
    /\ isRemovingBackground = FALSE
    /\ btnDisabled = [apply |-> TRUE, convert |-> TRUE, remove |-> TRUE, download |-> TRUE]
    /\ originalImagePreview = 0
    /\ resizedImagePreview = Placeholder("Resized image will appear here")
    /\ fileLoads = {}
    /\ backendCall = 0

\* handleImageSelected: the change event of the file input; no file, a file
\* that is not an image, or an image file whose reading starts
handleImageSelected ==
    \E picked \in BOOLEAN, isImage \in BOOLEAN, file \in Images :
        /\ IF ~picked
           THEN UNCHANGED <<fileLoads, statusText, statusClass>>
           ELSE IF ~isImage
           THEN /\ ShowStatus(<<"Please select a valid image file">>, TRUE)
                /\ UNCHANGED fileLoads
           ELSE /\ fileLoads' = fileLoads \cup {file}
                /\ UNCHANGED <<statusText, statusClass>>
        /\ UNCHANGED <<originalImage, originalImageData, resizedImageData,
                       isRemovingBackground, btnDisabled, originalImagePreview,
                       resizedImagePreview, backendCall>>
        /\ UNCHANGED <<compareVars, ioVars, diffVars, normVars, escVars, zoomVars>>

\* img.onload inside reader.onload of handleImageSelected
ImageLoaded ==
    \E file \in fileLoads :
        /\ fileLoads' = fileLoads \ {file}
        /\ originalImage' = file
        /\ originalImageData' = file
        /\ originalImagePreview' = file
        /\ btnDisabled' = [apply |-> FALSE, convert |-> FALSE, remove |-> FALSE,
                           download |-> TRUE]
        /\ resizedImagePreview' = Placeholder("Click \"Apply Changes\" to resize")
        /\ resizedImageData' = NoData
        /\ ShowStatus(<<"Image loaded successfully!">>, FALSE)
        /\ UNCHANGED <<isRemovingBackground, backendCall>>
        /\ UNCHANGED <<compareVars, ioVars, diffVars, normVars, escVars, zoomVars>>

\* handleApplyResize (how) and handleConvertToPng share their shape: the
\* canvas is drawn from originalImage
DrawFromOriginal(how, message) ==
    IF originalImage = 0
    THEN /\ ShowStatus(<<"Please select an image first">>, TRUE)
         /\ UNCHANGED <<resizedImageData, resizedImagePreview, btnDisabled>>
    ELSE /\ resizedImageData' = Data(originalImage, how)
         /\ resizedImagePreview' = Shown(resizedImageData')
         /\ btnDisabled' = [btnDisabled EXCEPT !.download = FALSE]
         /\ ShowStatus(message, FALSE)

handleApplyResize ==
    /\ ~btnDisabled.apply
    /\ DrawFromOriginal("resize", <<"Image resized successfully!">>)
    /\ UNCHANGED <<originalImage, originalImageData, isRemovingBackground,
                   originalImagePreview, fileLoads, backendCall>>
    /\ UNCHANGED <<compareVars, ioVars, diffVars, normVars, escVars, zoomVars>>

handleConvertToPng ==
    /\ ~btnDisabled.convert
    /\ DrawFromOriginal("png", <<"Image converted to PNG successfully!">>)
    /\ UNCHANGED <<originalImage, originalImageData, isRemovingBackground,
                   originalImagePreview, fileLoads, backendCall>>
    /\ UNCHANGED <<compareVars, ioVars, diffVars, normVars, escVars, zoomVars>>

\* handleDownloadResized: link.href = resizedImageData; link.click()
handleDownloadResized ==
    /\ ~btnDisabled.download
    /\ IF resizedImageData = NoData
       THEN ShowStatus(<<"No resized image to download">>, TRUE)
       ELSE ShowStatus(<<"Image downloaded!">>, FALSE)
    /\ UNCHANGED imageVars
    /\ UNCHANGED <<compareVars, ioVars, diffVars, normVars, escVars, zoomVars>>

\* handleRemoveBackground up to the awaited invoke("remove_background", ...)
handleRemoveBackground ==
    /\ ~btnDisabled.remove
    /\ IF originalImage = 0
       THEN /\ ShowStatus(<<"Please select an image first">>, TRUE)
            /\ UNCHANGED <<isRemovingBackground, btnDisabled, resizedImagePreview,
                           backendCall>>
       ELSE IF isRemovingBackground
       THEN /\ ShowStatus(<<"Background removal already in progress...">>, TRUE)
            /\ UNCHANGED <<isRemovingBackground, btnDisabled, resizedImagePreview,
                           backendCall>>
       ELSE /\ isRemovingBackground' = TRUE
            /\ btnDisabled' = [btnDisabled EXCEPT !.remove = TRUE]
            /\ resizedImagePreview' =
                   Placeholder("Removing background... This may take a moment.")
            /\ backendCall' = originalImageData
            /\ UNCHANGED <<statusText, statusClass>>
    /\ UNCHANGED <<originalImage, originalImageData, resizedImageData,
                   originalImagePreview, fileLoads>>
    /\ UNCHANGED <<compareVars, ioVars, diffVars, normVars, escVars, zoomVars>>

\* handleRemoveBackground after the await. A result is stored and shown;
\* reading originalImage.width then throws when originalImage is null, which
\* the catch block reports like a rejected call. The finally block runs in
\* every case.
RemoveBackgroundSettles ==
    \E resolved \in BOOLEAN :
        /\ backendCall # 0
        /\ IF resolved
           THEN /\ resizedImageData' = Data(backendCall, "bg")
                /\ IF originalImage # 0
                   THEN /\ resizedImagePreview' = Shown(resizedImageData')
                        /\ btnDisabled' = [btnDisabled EXCEPT !.download = FALSE,
                                                              !.remove = FALSE]
                        /\ ShowStatus(<<"Background removed successfully!">>, FALSE)
                   ELSE /\ resizedImagePreview' =
                               Placeholder("Failed to remove background. Please try again.")
                        /\ btnDisabled' = [btnDisabled EXCEPT !.remove = FALSE]
                        /\ ShowStatus(<<"Error: ", "TypeError">>, TRUE)
           ELSE /\ resizedImagePreview' =
                       Placeholder("Failed to remove background. Please try again.")
                /\ btnDisabled' = [btnDisabled EXCEPT !.remove = FALSE]
                /\ ShowStatus(<<"Error: ", "remove_background failed">>, TRUE)
                /\ UNCHANGED resizedImageData
        /\ isRemovingBackground' = FALSE
        /\ backendCall' = 0
        /\ UNCHANGED <<originalImage, originalImageData, originalImagePreview, fileLoads>>
        /\ UNCHANGED <<compareVars, ioVars, diffVars, normVars, escVars, zoomVars>>

handleClearImage ==
    /\ originalImage' = 0
    /\ originalImageData' = 0
    /\ resizedImageData' = NoData
    /\ originalImagePreview' = 0
    /\ resizedImagePreview' = Placeholder("Resized image will appear here")
    /\ btnDisabled' = [apply |-> TRUE, convert |-> TRUE, remove |-> TRUE, download |-> TRUE]
    /\ ShowStatus(<<"Image resizer cleared!">>, FALSE)
    /\ UNCHANGED <<isRemovingBackground, fileLoads, backendCall>>
    /\ UNCHANGED <<compareVars, ioVars, diffVars, normVars, escVars, zoomVars>>

\* ----------------------------------------------------------- specifications

\* The compare tab
Init == SessionInit /\ DiffIdle /\ NormIdle /\ EscIdle /\ ZoomInit /\ ImageInit

Next ==
    \/ EditLeft
    \/ EditRight
    \/ BeautifyLeft
    \/ BeautifyRight
    \/ Compare
    \/ Clear
    \/ CopyDiff
    \/ CopySettles
    \/ OpenDiffWindow
    \/ HideStatus

Spec == Init /\ [][Next]_vars

\* buildLineDiff on its own
DiffStart == DiffInit /\ SessionInit /\ NormIdle /\ EscIdle /\ ZoomInit /\ ImageInit

DiffNext == Align \/ Merge \/ Project

DiffSpec == DiffStart /\ [][DiffNext]_vars

\* normalizedJson on its own
NormStart == NormInit /\ SessionInit /\ DiffIdle /\ EscIdle /\ ZoomInit /\ ImageInit

NormNext == Normalize \/ NormalizeAgain

NormSpec == NormStart /\ [][NormNext]_vars

\* escapeHtml on its own
EscStart == EscInit /\ SessionInit /\ DiffIdle /\ NormIdle /\ ZoomInit /\ ImageInit

EscNext == Escape \/ RenderEscaped

EscSpec == EscStart /\ [][EscNext]_vars

\* The Mermaid tab: zoom, pan and render of the preview
ZoomNext ==
    \/ handleZoomIn
    \/ handleZoomOut
    \/ handleZoomReset
    \/ WheelZoom
    \/ toggleDragMode
    \/ handleDragStart
    \/ handleDragMove
    \/ handleDragEnd
    \/ handleRenderMermaid
    \/ RenderSettles
    \/ handleClearMermaid
    \/ HideStatus

ZoomSpec == Init /\ [][ZoomNext]_vars

\* The image tab
ImageNext ==
    \/ handleImageSelected
    \/ ImageLoaded
    \/ handleApplyResize
    \/ handleConvertToPng
    \/ handleDownloadResized
    \/ handleRemoveBackground
    \/ RemoveBackgroundSettles
    \/ handleClearImage
    \/ HideStatus

ImageSpec == Init /\ [][ImageNext]_vars

\* -------------------------------------------------- claims on buildLineDiff

\* entries that carry a left line / a right line
LeftBearing == {"same", "removed", "changed"}
RightBearing == {"same", "added", "changed"}

RECURSIVE SelectTypes(_, _)
SelectTypes(entries, types) ==
    IF entries = <<>> THEN <<>>
    ELSE (IF Head(entries).type \in types THEN <<Head(entries)>> ELSE <<>>)
         \o SelectTypes(Tail(entries), types)

LeftTexts(entries) ==
    LET sel == SelectTypes(entries, LeftBearing)
    IN  [k \in 1..Len(sel) |-> sel[k].left]

RightTexts(entries) ==
    LET sel == SelectTypes(entries, RightBearing)
    IN  [k \in 1..Len(sel) |-> sel[k].right]

CountType(entries, t) == Len(SelectTypes(entries, {t}))

HasType(entries, t) == \E k \in 1..Len(entries) : entries[k].type = t

\* Reference definition of the LCS length, by enumeration: the largest set of
\* positions of `a` whose lines, in order, form a subsequence of `b`.
RECURSIVE IsSubsequence(_, _)
IsSubsequence(s, b) ==
    IF s = <<>> THEN TRUE
    ELSE IF b = <<>> THEN FALSE
    ELSE IF Head(s) = Head(b) THEN IsSubsequence(Tail(s), Tail(b))
    ELSE IsSubsequence(s, Tail(b))

RECURSIVE Pick(_, _, _)
Pick(a, keep, k) ==
    IF k > Len(a) THEN <<>>
    ELSE (IF k \in keep THEN <<a[k]>> ELSE <<>>) \o Pick(a, keep, k + 1)

RefLcsLength(a, b) ==
    LET sizes == {Cardinality(keep) : keep \in {K \in SUBSET (1..Len(a)) :
                                               IsSubsequence(Pick(a, K, 1), b)}}
    IN  CHOOSE n \in sizes : \A o \in sizes : o <= n

\* C1: the left texts of the same, removed and changed entries of the result,
\* in order, are leftLines; the right texts of the same, added and changed
\* entries, in order, are rightLines.
C1_Reconstruction ==
    pc = "merged" =>
        /\ LeftTexts(merged) = leftLines
        /\ RightTexts(merged) = rightLines

\* a result with a changed entry, for inputs with a repeated line
C1_Witness ==
    /\ pc = "merged"
    /\ HasType(merged, "changed") /\ HasType(merged, "same")
    /\ Len(leftLines) = MaxLines
    /\ leftLines[1] = leftLines[2]
    /\ rightLines # <<>>

\* C2: the number of same entries of the result is the length of a longest
\* common subsequence of leftLines and rightLines.
C2_LcsLength ==
    pc = "merged" =>
        CountType(merged, "same") = RefLcsLength(leftLines, rightLines)

\* two lines in common, in an input where a greedy match would find one
C2_Witness ==
    /\ pc = "merged"
    /\ leftLines = <<<<"a">>, <<"b">>, <<"a", " ">>>>
    /\ rightLines = <<<<"a", " ">>, <<"a">>, <<"b">>>>
    /\ CountType(merged, "same") = 2

\* C3: no removed entry of the result is immediately followed by an added entry.
C3_NoRemovedThenAdded ==
    pc = "merged" =>
        \A k \in 1..(Len(merged) - 1) :
            ~(merged[k].type = "removed" /\ merged[k + 1].type = "added")

\* the alignment had two removed entries followed by two added entries
C3_Witness ==
    /\ pc = "merged"
    /\ \E k \in 1..(Len(diff) - 3) :
          /\ diff[k].type = "removed" /\ diff[k + 1].type = "removed"
          /\ diff[k + 2].type = "added" /\ diff[k + 3].type = "added"

\* C4: buildLineDiff(X, X) is one same entry per line of X, in the order of X.
C4_Reflexive ==
    (pc = "merged" /\ leftLines = rightLines) =>
        merged = [k \in 1..Len(leftLines) |->
                     Entry("same", leftLines[k], leftLines[k])]

\* X compared with itself, X of full length with a repeated line
C4_Witness ==
    /\ pc = "merged"
    /\ leftLines = rightLines
    /\ Len(leftLines) = MaxLines
    /\ leftLines[1] = leftLines[2]
    /\ Len(merged) = MaxLines

\* ----------------------------------------------------- claims on the handlers

FailedCompare == lastCall.op = "compare" /\ lastCall.threw # "none"

FailedBeautify == lastCall.op = "beautify" /\ lastCall.threw # "none"

\* The status text of a compare whose normalizedJson call on `text` throws
FailureStatus(text) == <<"Error: ">> \o ErrorString(normalizedJson(text).error)

C6_FailedCompareResets ==
    FailedCompare =>
        /\ lastDiffText = <<>>
        /\ lastDiffHtml = <<>>
        /\ diffContainer = EmptyDiffHtml

\* a compare that failed while a diff of an earlier compare was stored
C6_Witness ==
    /\ FailedCompare
    /\ lastCall.hadDiff
    /\ HasType(lastDiff, "changed")

\* C7 as stated: after any handler that met a parse error, compare or beautify,
\* the last result is the empty sentinel and the container holds the header only.
C7_AnyErrorResets ==
    (FailedCompare \/ FailedBeautify) =>
        /\ lastDiffText = <<>>
        /\ lastDiffHtml = <<>>
        /\ diffContainer = EmptyDiffHtml

\* C7 (amended): a parse error in compare resets the last result to the empty
\* sentinel; a parse error in handleBeautifyCompare changes neither
\* lastDiffText, lastDiffHtml, the diff container nor the two text areas.
C7_ErrorRecovery ==
    [][ /\ (FailedCompare)' =>
              /\ lastDiffText' = <<>>
              /\ lastDiffHtml' = <<>>
              /\ diffContainer' = EmptyDiffHtml
        /\ (FailedBeautify)' =>
              UNCHANGED <<lastDiffText, lastDiffHtml, diffContainer,
                          compareLeft, compareRight>> ]_vars

\* a beautify that failed while a diff was stored and displayed
C7_Witness ==
    /\ FailedBeautify
    /\ lastCall.hadDiff
    /\ diffContainer # EmptyDiffHtml

\* C8: lastDiffHtml and lastDiffText are both empty, or they are buildDiffHtml
\* and serializeDiff of the diff of the most recent compare that succeeded,
\* both non-empty.
C8_ReplacedWholesale ==
    \/ /\ lastDiffHtml = <<>>
       /\ lastDiffText = <<>>
    \/ /\ lastDiffHtml = buildDiffHtml(lastDiff)
       /\ lastDiffText = serializeDiff(lastDiff)
       /\ lastDiffHtml # <<>>
       /\ lastDiffText # <<>>

\* a stored diff with a changed entry, an edit made after the compare
C8_Witness ==
    /\ lastDiffHtml # <<>>
    /\ HasType(lastDiff, "changed")
    /\ lastCall.op = "edit"
    /\ ~normalizedJson(compareLeft).ok

\* ---------------------------------------------------- claims on normalizedJson

\* The same JSON value up to the order of object keys
RECURSIVE SameJson(_, _)
SameJson(v, w) ==
    IF v.t # w.t THEN FALSE
    ELSE IF v.t = "arr"
    THEN /\ Len(v.v) = Len(w.v)
         /\ \A k \in 1..Len(v.v) : SameJson(v.v[k], w.v[k])
    ELSE IF v.t = "obj"
    THEN /\ {v.v[k].k : k \in 1..Len(v.v)} = {w.v[k].k : k \in 1..Len(w.v)}
         /\ \A k \in 1..Len(v.v) : SameJson(v.v[k].v, GetProp(w.v, v.v[k].k))
    ELSE v = w

\* C9: normalizedJson(normalizedJson(T)) = normalizedJson(T) for valid T.
C9_Idempotent ==
    normPc = "twice" =>
        /\ outA.ok => (outAA.ok /\ outAA.text = outA.text)
        /\ outB.ok => (outBB.ok /\ outBB.text = outB.text)

\* a text that normalizedJson changes: keys out of order inside a nested object
C9_Witness ==
    /\ normPc = "twice"
    /\ outA.ok /\ outA.text # normA
    /\ outB.ok /\ outB.text # normB
    /\ normA = <<"{", "\"", "b", "\"", ":", "{", "\"", "b", "\"", ":", "-", "0", ",",
                 "\"", "a", "\"", ":", "\"", "\\", "/", "\"", "}", "}">>

\* C10: two valid texts of the same value up to key order and whitespace
\* normalize to the same text.
C10_KeyOrderInsensitive ==
    (/\ normPc \in {"once", "twice"}
     /\ outA.ok /\ outB.ok
     /\ SameJson(JsonParse(normA).val, JsonParse(normB).val)) =>
        outA.text = outB.text

\* an array holding an object whose two members come in the other order in
\* normB, which also has whitespace
C10_Witness ==
    /\ normPc = "once"
    /\ outA.ok /\ outB.ok
    /\ LET a == JsonParse(normA).val
           b == JsonParse(normB).val
       IN  /\ SameJson(a, b)
           /\ a.t = "arr" /\ Len(a.v) = 1
           /\ a.v[1].t = "obj" /\ Len(a.v[1].v) = 2
           /\ ObjectKeys(a.v[1].v) # ObjectKeys(b.v[1].v)
           /\ a.v[1].v[1].v # a.v[1].v[2].v
    /\ \E k \in 1..Len(normB) : normB[k] = "\n"

\* The number of leading spaces of a line
RECURSIVE Indent(_)
Indent(line) ==
    IF line # <<>> /\ Head(line) = " " THEN 1 + Indent(Tail(line)) ELSE 0

\* The first position >= i of a double quote in the line, Len + 1 if none
RECURSIVE QuoteAt(_, _)
QuoteAt(line, i) ==
    IF i > Len(line) \/ line[i] = "\"" THEN i ELSE QuoteAt(line, i + 1)

\* A line `<indent>"key": ...` of the indented text is a member line
IsMemberLine(line) ==
    LET open == Indent(line) + 1
        close == QuoteAt(line, open + 1)
    IN  /\ CharAt(line, open) = "\""
        /\ CharAt(line, close + 1) = ":"

MemberKey(line) ==
    SubSeq(line, Indent(line) + 2, QuoteAt(line, Indent(line) + 2) - 1)

\* Two member lines of one object with no member of that object between them
NextMember(lines, p, q) ==
    /\ p < q
    /\ IsMemberLine(lines[p]) /\ IsMemberLine(lines[q])
    /\ Indent(lines[p]) = Indent(lines[q])
    /\ \A k \in (p + 1)..(q - 1) :
          /\ Indent(lines[k]) >= Indent(lines[p])
          /\ ~(IsMemberLine(lines[k]) /\ Indent(lines[k]) = Indent(lines[p]))

\* In the indented text the keys of every object ascend in code-unit order
KeysAscending(text) ==
    LET lines == SplitLines(text)
    IN  \A p, q \in 1..Len(lines) :
            NextMember(lines, p, q) => StrLess(MemberKey(lines[p]), MemberKey(lines[q]))

\* C11: in the text returned by normalizedJson the keys of every object, at
\* every nesting level, are in ascending lexicographic order, keys made of
\* decimal digits ("2", "10") included.
C11_KeysAscending ==
    normPc \in {"once", "twice"} =>
        /\ outA.ok => KeysAscending(outA.text)
        /\ outB.ok => KeysAscending(outB.text)

\* ------------------------------------------- claims on the shape of the result

\* buildLineDiff has returned
Returned == pc = "merged"

\* d[s..s+k-1] are removed, d[s+k..s+k+l-1] are added, and the run is maximal
IsRun(d, s, k, l) ==
    /\ k >= 1 /\ l >= 1
    /\ s + k + l - 1 <= Len(d)
    /\ \A t \in s..(s + k - 1) : d[t].type = "removed"
    /\ \A t \in (s + k)..(s + k + l - 1) : d[t].type = "added"
    /\ (s > 1 => d[s - 1].type # "removed")
    /\ (s + k + l <= Len(d) => d[s + k + l].type # "added")

\* The number of places before s where a removed entry is followed by an added one
BoundariesBefore(d, s) ==
    Cardinality({t \in 1..(s - 1) :
                    t + 1 <= Len(d) /\ d[t].type = "removed" /\ d[t + 1].type = "added"})

\* C12: a maximal run of k removed entries followed by l added entries of the
\* alignment becomes k-1 removed entries, one changed entry made of the last
\* removed text and the first added text, and l-1 added entries.
C12_SinglePairMerge ==
    Returned =>
        /\ Len(merged) = Len(diff) - BoundariesBefore(diff, Len(diff))
        /\ \A s \in 1..Len(diff), k \in 1..Len(diff), l \in 1..Len(diff) :
              IsRun(diff, s, k, l) =>
                  LET at == s - BoundariesBefore(diff, s)
                  IN  /\ at + k + l - 2 <= Len(merged)
                      /\ \A i \in 0..(k - 2) : merged[at + i] = diff[s + i]
                      /\ merged[at + k - 1] =
                             Entry("changed", diff[s + k - 1].left, diff[s + k].right)
                      /\ \A i \in 1..(l - 1) : merged[at + k - 1 + i] = diff[s + k + i]

\* two lines against two other lines: removed, removed, added, added
C12_Witness ==
    /\ pc = "merged"
    /\ leftLines = << <<"a">>, <<"b">> >>
    /\ rightLines = << <<"a", " ">>, <<>> >>
    /\ IsRun(diff, 1, 2, 2)
    /\ merged = << Entry("removed", <<"a">>, <<>>),
                   Entry("changed", <<"b">>, <<"a", " ">>),
                   Entry("added", <<>>, <<>>) >>

\* The indexes at which two line sequences of one length differ
DifferAt(a, b) == {k \in 1..Len(a) : a[k] # b[k]}

Substituted(a, b, k) ==
    [i \in 1..Len(a) |-> IF i = k THEN Entry("changed", a[k], b[k])
                         ELSE Entry("same", a[i], b[i])]

\* C13 as stated: for line sequences of one length that differ at exactly one
\* index k, whatever the neighbours of leftLines[k], the result is a same
\* entry at every other index and changed(leftLines[k], rightLines[k]) at k.
C13_SubstitutionAnyNeighbour ==
    (Returned /\ Len(leftLines) = Len(rightLines)) =>
        \A k \in 1..Len(leftLines) :
            DifferAt(leftLines, rightLines) = {k} =>
                merged = Substituted(leftLines, rightLines, k)

\* C13 (amended): the same, provided the line before index k on the left is
\* not equal to leftLines[k]; the line after it may be.
C13_Substitution ==
    (Returned /\ Len(leftLines) = Len(rightLines)) =>
        \A k \in 1..Len(leftLines) :
            (/\ DifferAt(leftLines, rightLines) = {k}
             /\ (k > 1 => leftLines[k - 1] # leftLines[k])) =>
                merged = Substituted(leftLines, rightLines, k)

\* the middle line replaced, the line after it equal to the replaced one
C13_Witness ==
    /\ pc = "merged"
    /\ leftLines = << <<"b">>, <<"a">>, <<"a">> >>
    /\ rightLines = << <<"b">>, <<"a", " ">>, <<"a">> >>
    /\ merged = Substituted(leftLines, rightLines, 2)

\* b is a followed by one line or more
Appended(a, b) ==
    /\ Len(b) > Len(a)
    /\ SubSeq(b, 1, Len(a)) = a

Inserted(a, b) ==
    [i \in 1..Len(b) |-> IF i <= Len(a) THEN Entry("same", a[i], b[i])
                         ELSE Entry("added", <<>>, b[i])]

\* C14 as stated: when rightLines is leftLines followed by appended lines,
\* whatever these are, the result is same for each line of leftLines and then
\* added for each appended line.
C14_InsertionAnyLines ==
    (Returned /\ Appended(leftLines, rightLines)) =>
        merged = Inserted(leftLines, rightLines)

\* C14 (amended): the same, provided no appended line is equal to the last
\* line of leftLines.
C14_Insertion ==
    (/\ Returned
     /\ Appended(leftLines, rightLines)
     /\ \A i \in (Len(leftLines) + 1)..Len(rightLines) :
           leftLines = <<>> \/ rightLines[i] # leftLines[Len(leftLines)]) =>
        merged = Inserted(leftLines, rightLines)

\* the appended line is equal to the first line of leftLines, not to its last
C14_Witness ==
    /\ pc = "merged"
    /\ leftLines = << <<"a">>, <<"b">> >>
    /\ rightLines = << <<"a">>, <<"b">>, <<"a">> >>
    /\ merged = Inserted(leftLines, rightLines)

\* a is one line or more followed by b
Prepended(a, b) ==
    /\ Len(a) > Len(b)
    /\ SubSeq(a, Len(a) - Len(b) + 1, Len(a)) = b

Deleted(a, b) ==
    LET t == Len(a) - Len(b)
    IN  [i \in 1..Len(a) |-> IF i <= t THEN Entry("removed", a[i], <<>>)
                             ELSE Entry("same", a[i], b[i - t])]

\* C15: when leftLines is one line or more followed by rightLines, the result
\* is removed for each leading line and then same for each line of rightLines.
C15_Deletion ==
    (Returned /\ Prepended(leftLines, rightLines)) =>
        merged = Deleted(leftLines, rightLines)

\* two leading lines deleted, one of them equal to the line that stays
C15_Witness ==
    /\ pc = "merged"
    /\ leftLines = << <<"b">>, <<"a">>, <<"b">> >>
    /\ rightLines = << <<"b">> >>
    /\ merged = Deleted(leftLines, rightLines)

\* ------------------------------------------------ claims on the projections

\* The lines of a text that start with one of the marks, without mark and space
RECURSIVE Unmarked(_, _)
Unmarked(lines, marks) ==
    IF lines = <<>> THEN <<>>
    ELSE (IF Len(Head(lines)) >= 2 /\ Head(lines)[1] \in marks /\ Head(lines)[2] = " "
          THEN <<SubSeq(Head(lines), 3, Len(Head(lines)))>>
          ELSE <<>>)
         \o Unmarked(Tail(lines), marks)

\* The line of the text on which entry k starts: one line for each entry
\* before it and one more for each changed entry before it
LineOf(entries, k) ==
    k + CountType(SubSeq(entries, 1, k - 1), "changed")

\* C16: serializeDiff writes "  " and the text for same, "+ " and the right
\* text for added, "- " and the left text for removed, "- " left and on the
\* next line "+ " right for changed, one entry after the other on lines of
\* their own; for m and n input lines the text has m + n - (number of same
\* entries) lines.
C16_UnifiedText ==
    pc = "projected" =>
        LET lines == SplitLines(unifiedText)
        IN  IF merged = <<>> THEN unifiedText = <<>>
            ELSE /\ Len(lines) = Len(leftLines) + Len(rightLines) - CountType(merged, "same")
                 /\ \A k \in 1..Len(merged) :
                       LET e == merged[k]
                           at == LineOf(merged, k)
                       IN  /\ e.type = "same" => lines[at] = <<" ", " ">> \o e.left
                           /\ e.type = "added" => lines[at] = <<"+", " ">> \o e.right
                           /\ e.type = "removed" => lines[at] = <<"-", " ">> \o e.left
                           /\ e.type = "changed" =>
                                 /\ lines[at] = <<"-", " ">> \o e.left
                                 /\ lines[at + 1] = <<"+", " ">> \o e.right
                 /\ Unmarked(lines, {" ", "-"}) = leftLines
                 /\ Unmarked(lines, {" ", "+"}) = rightLines

\* a result with an entry of each type: five lines of text for 3 + 3 input lines
C16_Witness ==
    /\ pc = "projected"
    /\ leftLines = << <<"a">>, <<"b">>, <<"a">> >>
    /\ rightLines = << <<"b">>, <<"a", " ">>, <<>> >>
    /\ \A t \in {"same", "added", "removed", "changed"} : HasType(merged, t)
    /\ Len(SplitLines(unifiedText)) = 5

\* A cell with a text, and the cell of a side that has none; a text that is
\* the empty line is shown like no text
TextCell(t) == <<"<div class=\"diff-cell ", "\">">> \o t \o <<"</div>">>

PlaceholderCell == <<"<div class=\"diff-cell ", "diff-empty", "\">", " ", "</div>">>

ShownCell(t) == IF t = <<>> THEN PlaceholderCell ELSE TextCell(t)

ExpectedRow(e) ==
    <<"<div class=\"diff-row diff-", e.type, "\">">>
    \o (IF e.type = "same" THEN ShownCell(e.left) \o ShownCell(e.left)
        ELSE IF e.type = "added" THEN PlaceholderCell \o ShownCell(e.right)
        ELSE IF e.type = "removed" THEN ShownCell(e.left) \o PlaceholderCell
        ELSE ShownCell(e.left) \o ShownCell(e.right))
    \o <<"</div>">>

RECURSIVE ExpectedRows(_)
ExpectedRows(entries) ==
    IF entries = <<>> THEN <<>>
    ELSE ExpectedRow(Head(entries)) \o ExpectedRows(Tail(entries))

\* The types on the rows of a markup, in order
RECURSIVE RowTypes(_)
RowTypes(html) ==
    IF html = <<>> THEN <<>>
    ELSE IF Head(html) = "<div class=\"diff-row diff-"
    THEN <<html[2]>> \o RowTypes(Tail(html))
    ELSE RowTypes(Tail(html))

\* C17: buildDiffHtml gives the two header cells and then one row for each
\* entry, in order, with the entry's type and two cells: the text twice for
\* same, a placeholder cell marked empty and the text for added, the text and
\* the placeholder for removed, the left and the right text for changed; for
\* no entries it gives the two header cells alone. (The lines here have no
\* character that escapeHtml changes.)
C17_DisplayMarkup ==
    pc = "projected" =>
        /\ SubSeq(displayHtml, 1, 2) =
               <<"<div class=\"diff-header\">Left</div>",
                 "<div class=\"diff-header\">Right</div>">>
        /\ SubSeq(displayHtml, 3, Len(displayHtml)) = ExpectedRows(merged)
        /\ RowTypes(displayHtml) = [k \in 1..Len(merged) |-> merged[k].type]
        /\ merged = <<>> => Len(displayHtml) = 2

\* a removed, a same and a changed row
C17_Witness ==
    /\ pc = "projected"
    /\ leftLines = << <<"b">>, <<"a">>, <<"b">> >>
    /\ rightLines = << <<"a">>, <<"a", " ">> >>
    /\ RowTypes(displayHtml) = <<"removed", "same", "changed">>

\* ------------------------------------------------------- claims on escapeHtml

Specials == {"&", "<", ">", "\"", "'"}

\* The five entities and the characters they stand for
Entities ==
    { [char |-> "&", text |-> <<"&", "a", "m", "p", ";">>],
      [char |-> "<", text |-> <<"&", "l", "t", ";">>],
      [char |-> ">", text |-> <<"&", "g", "t", ";">>],
      [char |-> "\"", text |-> <<"&", "q", "u", "o", "t", ";">>],
      [char |-> "'", text |-> <<"&", "#", "3", "9", ";">>] }

\* The entities that start at position i of s
EntitiesAt(s, i) ==
    {e \in Entities : i + Len(e.text) - 1 <= Len(s)
                      /\ SubSeq(s, i, i + Len(e.text) - 1) = e.text}

\* s with every entity read as its character, from the left
RECURSIVE DecodeFrom(_, _)
DecodeFrom(s, i) ==
    IF i > Len(s) THEN <<>>
    ELSE IF EntitiesAt(s, i) # {}
    THEN LET e == CHOOSE x \in EntitiesAt(s, i) : TRUE
         IN  <<e.char>> \o DecodeFrom(s, i + Len(e.text))
    ELSE <<s[i]>> \o DecodeFrom(s, i + 1)

Decode(s) == DecodeFrom(s, 1)

CountIn(s, chars) == Cardinality({i \in 1..Len(s) : s[i] \in chars})

\* Escaped text: no raw <, >, " or ', and every & starts an entity
IsEscaped(s) ==
    /\ \A i \in 1..Len(s) : s[i] \notin {"<", ">", "\"", "'"}
    /\ \A i \in 1..Len(s) : s[i] = "&" => EntitiesAt(s, i) # {}

\* The texts of the cells of a markup, in order: what stands between the end
\* of a cell's opening tag and its closing tag
RECURSIVE CellTexts(_, _, _)
CellTexts(html, i, cur) ==
    IF i > Len(html) THEN <<>>
    ELSE IF cur.in
    THEN IF html[i] = "</div>"
         THEN <<cur.text>> \o CellTexts(html, i + 1, [in |-> FALSE, open |-> FALSE, text |-> <<>>])
         ELSE CellTexts(html, i + 1, [cur EXCEPT !.text = Append(cur.text, html[i])])
    ELSE IF cur.open
    THEN CellTexts(html, i + 1, [cur EXCEPT !.in = (html[i] = "\">")])
    ELSE CellTexts(html, i + 1, [cur EXCEPT !.open = (html[i] = "<div class=\"diff-cell ")])

\* C18: escapeHtml(s) has no raw <, >, " or ', every & in it starts one of
\* the five entities, each of the five characters of s is replaced once (as
\* many & in the result as special characters in s, nothing else changed),
\* and reading the entities back gives s; the cell texts of the markup built
\* by buildDiffHtml are escaped in this way.
C18_Escaping ==
    /\ escPc \in {"escaped", "rendered"} =>
          /\ IsEscaped(escOutput)
          /\ CountIn(escOutput, {"&"}) = CountIn(escInput, Specials)
          /\ CountIn(escOutput, {";"}) = CountIn(escInput, Specials \cup {";"})
          /\ Decode(escOutput) = escInput
    /\ escPc = "rendered" =>
          LET cells == CellTexts(escMarkup, 1, [in |-> FALSE, open |-> FALSE, text |-> <<>>])
          IN  /\ Len(cells) = 2
              /\ IsEscaped(cells[1]) /\ IsEscaped(cells[2])
              /\ Decode(cells[1]) = (IF escInput = <<>> THEN <<" ">> ELSE escInput)
              /\ Decode(cells[2]) = <<"t">>

\* a string that reads like an entity: its & is escaped, once
C18_Witness ==
    /\ escPc = "rendered"
    /\ escInput = <<"&", "l", "t", ";">>
    /\ escOutput = <<"&", "a", "m", "p", ";", "l", "t", ";">>
    /\ Decode(escOutput) # Decode(escInput)

\* ------------------------------------------------- claims on determinism

\* What a compare leaves behind, written as a function of the two texts alone
CompareOutcome(l, r) ==
    LET nl == normalizedJson(l)
        nr == normalizedJson(r)
    IN  IF nl.ok /\ nr.ok
        THEN LET d == buildLineDiff(SplitLines(nl.text), SplitLines(nr.text))
             IN  [text |-> serializeDiff(d), html |-> buildDiffHtml(d),
                  shown |-> buildDiffHtml(d), left |-> nl.text, right |-> nr.text]
        ELSE [text |-> <<>>, html |-> <<>>,
              shown |-> <<"<div class=\"diff-header\">Left</div>",
                          "<div class=\"diff-header\">Right</div>">>,
              left |-> l, right |-> r]

\* C19: what a compare leaves in lastDiffText, lastDiffHtml, the diff
\* container and the two text areas is a function of the two texts it is
\* invoked with, whatever ran before it in the session.
C19_Deterministic ==
    [][(lastCall'.op = "compare" /\ Compare) =>
          [text |-> lastDiffText', html |-> lastDiffHtml', shown |-> diffContainer',
           left |-> compareLeft', right |-> compareRight']
          = CompareOutcome(compareLeft, compareRight)]_vars

\* a compare that succeeded in a session that already had a diff stored
C19_Witness ==
    /\ lastCall.op = "compare"
    /\ lastCall.threw = "none"
    /\ lastCall.hadDiff
    /\ HasType(lastDiff, "added")
    /\ diffContainer = lastDiffHtml

\* ------------------------------------------------------- claims on the table

\* C20: after the fill loops dp has m + 1 rows of n + 1 entries, and dp[i][j]
\* is the length of a longest common subsequence of the first i lines of
\* leftLines and the first j lines of rightLines (0 for i = 0 or j = 0), lines
\* being equal only when they are the same string, spaces included.
C20_DpTable ==
    pc = "aligned" =>
        /\ Len(dpTable) = Len(leftLines) + 1
        /\ \A i \in 0..Len(leftLines) :
              /\ Len(dpTable[i + 1]) = Len(rightLines) + 1
              /\ \A j \in 0..Len(rightLines) :
                    /\ dpTable[i + 1][j + 1] =
                           RefLcsLength(SubSeq(leftLines, 1, i), SubSeq(rightLines, 1, j))
                    /\ (i = 0 \/ j = 0) => dpTable[i + 1][j + 1] = 0

\* lines that differ by a trailing space only are not matched
C20_Witness ==
    /\ pc = "aligned"
    /\ leftLines = << <<"a">>, <<"b">>, <<"a", " ">> >>
    /\ rightLines = << <<"a", " ">>, <<"b">>, <<"a">> >>
    /\ dpTable[2][2] = 0
    /\ dpTable[4][4] = 1

\* ------------------------------------------------ claims on the backtracking

\* Where the walk stands before its k-th step, read off the entries in the
\* order they were pushed: a same entry moves i and j, an added entry j, a
\* removed entry i
WalkI(pushed, k) ==
    Len(leftLines) - CountIn([t \in 1..(k - 1) |-> pushed[t].type], {"same", "removed"})

WalkJ(pushed, k) ==
    Len(rightLines) - CountIn([t \in 1..(k - 1) |-> pushed[t].type], {"same", "added"})

\* C21: the backtracking loop ends at (0, 0) after m + n - dp[m][n] steps,
\* each step lowering i or j, and no step reads leftLines[i - 1] at i = 0 or
\* rightLines[j - 1] at j = 0; this for empty inputs too.
C21_WalkTerminates ==
    pc = "aligned" =>
        LET pushed == Reverse(diff)
            m == Len(leftLines)
            n == Len(rightLines)
        IN  /\ Len(pushed) = m + n - dpTable[m + 1][n + 1]
            /\ WalkI(pushed, Len(pushed) + 1) = 0
            /\ WalkJ(pushed, Len(pushed) + 1) = 0
            /\ \A k \in 1..Len(pushed) :
                  LET i == WalkI(pushed, k)
                      j == WalkJ(pushed, k)
                      e == pushed[k]
                  IN  /\ i >= 0 /\ j >= 0
                      /\ e.type \in {"same", "added", "removed"}
                      /\ e.type = "same" =>
                            i > 0 /\ j > 0 /\ e.left = leftLines[i] /\ e.right = rightLines[j]
                      /\ e.type = "added" => j > 0 /\ e.right = rightLines[j]
                      /\ e.type = "removed" => i > 0 /\ e.left = leftLines[i]

\* no left line at all: the walk is n steps along row 0 of the table
C21_Witness ==
    /\ pc = "aligned"
    /\ leftLines = <<>>
    /\ Len(rightLines) = MaxLines
    /\ Len(diff) = MaxLines
    /\ \A k \in 1..Len(diff) : diff[k].type = "added"

\* The entries p..q are without a same entry: they are in one mismatch run
InOneRun(d, p, q) == \A t \in p..q : d[t].type # "same"

\* C22: in the alignment before the merge, within every run of entries that
\* are not same, the removed entries come before the added ones: no added
\* entry is directly followed by a removed entry.
C22_RemovedBeforeAdded ==
    pc = "aligned" =>
        /\ \A k \in 1..(Len(diff) - 1) :
              ~(diff[k].type = "added" /\ diff[k + 1].type = "removed")
        /\ \A p, q \in 1..Len(diff) :
              (p < q /\ InOneRun(diff, p, q)) =>
                  ~(diff[p].type = "added" /\ diff[q].type = "removed")

\* a run of two removed and one added entry after a same entry, from a tie
C22_Witness ==
    /\ pc = "aligned"
    /\ Len(diff) = 4
    /\ diff[1].type = "same"
    /\ diff[2].type = "removed" /\ diff[3].type = "removed"
    /\ diff[4].type = "added"

\* C23: a changed entry of the result has a left text that is not its right text.
C23_ChangedDiffers ==
    pc = "merged" =>
        \A k \in 1..Len(merged) :
            merged[k].type = "changed" => merged[k].left # merged[k].right

\* the right text of the changed entry is also the left line before it
C23_Witness ==
    /\ pc = "merged"
    /\ leftLines = << <<"a">>, <<"b">> >>
    /\ rightLines = << <<"a">>, <<"a">> >>
    /\ merged = << Entry("same", <<"a">>, <<"a">>), Entry("changed", <<"b">>, <<"a">>) >>

\* C24: a compare that fails, on the left text or on the right text alone,
\* leaves both text areas as they were; a compare that succeeds writes the
\* canonical text into both, and the stored diff is the diff of the lines of
\* the two texts then in the text areas.
C24_AllOrNothing ==
    [][(lastCall'.op = "compare" /\ Compare) =>
          IF normalizedJson(compareLeft).ok /\ normalizedJson(compareRight).ok
          THEN /\ compareLeft' = normalizedJson(compareLeft).text
               /\ compareRight' = normalizedJson(compareRight).text
               /\ lastDiff' = buildLineDiff(SplitLines(compareLeft'), SplitLines(compareRight'))
               /\ lastDiffText' = serializeDiff(lastDiff')
               /\ lastDiffHtml' = buildDiffHtml(lastDiff')
          ELSE /\ compareLeft' = compareLeft
               /\ compareRight' = compareRight]_vars

\* the right text alone failed and the left text, valid, is not canonical
C24_Witness ==
    /\ lastCall.op = "compare"
    /\ lastCall.threw = "right"
    /\ normalizedJson(compareLeft).ok
    /\ normalizedJson(compareLeft).text # compareLeft

\* -------------------------------------------- claims on copying and opening

\* C25: handleCopyDiff and openDiffWindow invoked while the last result is
\* empty (at start-up, after a failed compare, after clear) write nothing to
\* the clipboard and open no window, and show the "No diff" error; what a
\* copy writes is the lastDiffText of that moment, never the text of a diff
\* that was discarded.
C25_NoCopyOfDiscarded ==
    /\ (lastCall.op \in {"copy", "open"} /\ ~lastCall.hadDiff) =>
          /\ lastCall.issued.kind = "none"
          /\ statusText = (IF lastCall.op = "copy" THEN <<"No diff to copy">>
                           ELSE <<"No diff to open">>)
          /\ statusClass \in {"error", "hidden"}
    /\ (lastCall.op = "copy" /\ lastCall.issued.kind # "none") =>
          /\ lastCall.issued.kind = "clipboard"
          /\ lastCall.issued.text = lastDiffText
          /\ lastCall.issued.text = serializeDiff(lastDiff)
          /\ lastDiffText # <<>>
    /\ (lastCall.op = "open" /\ lastCall.issued.kind # "none") =>
          /\ lastCall.issued.kind = "window"
          /\ lastCall.issued.text = buildDiffDocument(lastDiffHtml)
          /\ lastDiffHtml # <<>>

\* copy invoked after the diff of an earlier compare was discarded
C25_Witness ==
    /\ lastCall.op = "copy"
    /\ ~lastCall.hadDiff
    /\ lastDiff # <<>>
    /\ lastDiffText = <<>>
    /\ statusClass = "error"

\* ---------------------------------------------------------------------- C26
\* C26: the diff container shows lastDiffHtml whenever lastDiffHtml is not
\* empty, and the two header cells alone whenever it is empty.
C26_DisplayedIsStored ==
    diffContainer = (IF lastDiffHtml # <<>> THEN lastDiffHtml ELSE EmptyDiffHtml)

\* A clear that discarded a rendered diff
C26_Witness ==
    /\ lastCall.op = "clear" /\ lastCall.hadDiff
    /\ lastDiff # <<>>
    /\ lastDiffHtml = <<>>
    /\ diffContainer = EmptyDiffHtml

\* ---------------------------------------------------------------------- C27
\* C27: the unified text of the merged entries is the unified text of the
\* alignment before the merge: serializeDiff gives the same string for both,
\* and that string is the unified text made from the returned entries.
C27_MergeInvisible ==
    /\ pc = "merged" => serializeDiff(merged) = serializeDiff(diff)
    /\ pc = "projected" => unifiedText = serializeDiff(diff)

\* one removed and one added entry merged into a changed entry
C27_Witness ==
    /\ pc = "projected"
    /\ diff = << Entry("removed", <<"a">>, <<>>), Entry("added", <<>>, <<"b">>) >>
    /\ merged = << Entry("changed", <<"a">>, <<"b">>) >>
    /\ unifiedText = <<"-", " ", "a", "\n", "+", " ", "b">>

\* ---------------------------------------------------------------------- C28
\* Position of an entry type within a mismatch run
RunRank(type) == IF type = "removed" THEN 1 ELSE IF type = "changed" THEN 2 ELSE 3

\* The entries p..q of d are a mismatch run that cannot be extended
MaximalRun(d, p, q) ==
    /\ p <= q
    /\ InOneRun(d, p, q)
    /\ (p = 1 \/ d[p - 1].type = "same")
    /\ (q = Len(d) \/ d[q + 1].type = "same")

\* C28: in the returned entries every maximal run of entries that are not
\* same is some removed entries, then at most one changed entry, then some
\* added entries; so changed is never next to changed, changed is never
\* directly followed by removed, and added is never directly followed by
\* removed or changed.
C28_RunShape ==
    pc = "merged" =>
        /\ \A p, q \in 1..Len(merged) :
              MaximalRun(merged, p, q) =>
                  /\ \A t \in p..(q - 1) :
                        RunRank(merged[t].type) <= RunRank(merged[t + 1].type)
                  /\ Cardinality({t \in p..q : merged[t].type = "changed"}) <= 1
        /\ \A k \in 1..(Len(merged) - 1) :
              /\ ~(merged[k].type = "changed" /\ merged[k + 1].type = "changed")
              /\ ~(merged[k].type = "changed" /\ merged[k + 1].type = "removed")
              /\ ~(merged[k].type = "added"
                    /\ merged[k + 1].type \in {"removed", "changed"})

\* a run with all three parts: removed, changed, added
C28_Witness ==
    /\ pc = "merged"
    /\ leftLines = << <<"a">>, <<"b">> >>
    /\ rightLines = << <<>>, <<"a", " ">> >>
    /\ merged = << Entry("removed", <<"a">>, <<>>),
                   Entry("changed", <<"b">>, <<>>),
                   Entry("added", <<>>, <<"a", " ">>) >>

\* ---------------------------------------------------------------------- C29
\* C29: currentZoom is always a multiple of ZOOM_STEP between ZOOM_MIN and
\* ZOOM_MAX; a zoom-in (button or wheel) adds one step but never goes above
\* ZOOM_MAX, so at ZOOM_MAX it changes nothing; a zoom-out subtracts one step
\* but never goes below ZOOM_MIN, so at ZOOM_MIN it changes nothing; after a
\* reset and after a clear of the diagram currentZoom is 100 and panX and
\* panY are 0.
C29_ZoomBounds ==
    /\ currentZoom % ZOOM_STEP = 0
    /\ ZOOM_MIN <= currentZoom /\ currentZoom <= ZOOM_MAX
    /\ zoomCall.op = "in" =>
          /\ currentZoom = Min(zoomCall.before + ZOOM_STEP, ZOOM_MAX)
          /\ zoomCall.before = ZOOM_MAX => currentZoom = zoomCall.before
    /\ zoomCall.op = "out" =>
          /\ currentZoom = Max(zoomCall.before - ZOOM_STEP, ZOOM_MIN)
          /\ zoomCall.before = ZOOM_MIN => currentZoom = zoomCall.before
    /\ zoomCall.op \in {"reset", "clear"} =>
          /\ currentZoom = 100
          /\ panX = 0 /\ panY = 0

\* a zoom-in at ZOOM_MAX, on a diagram that was dragged
C29_Witness ==
    /\ zoomCall = [op |-> "in", before |-> ZOOM_MAX]
    /\ currentZoom = ZOOM_MAX
    /\ mermaidPreview = Content(ZOOM_MAX, 1, 0 - 1)

\* ---------------------------------------------------------------------- C30
\* C30: a processed image that is stored was computed from the image that is
\* loaded now; so was a processed image that is displayed, and one that the
\* download button offers; and the Remove Background button is enabled only
\* while an image is loaded.
C30_ProcessedMatchesLoaded ==
    /\ resizedImageData # NoData =>
          /\ originalImageData # 0
          /\ resizedImageData.from = originalImageData
    /\ resizedImagePreview.data # NoData =>
          resizedImagePreview.data.from = originalImageData
    /\ ~btnDisabled.download =>
          /\ resizedImageData # NoData
          /\ resizedImageData.from = originalImageData
    /\ ~btnDisabled.remove => originalImage # 0

====
